---- MODULE Spec2Model ----
(***************************************************************************)
(* The NAT hole-punching state machine ("puncher") of portal-tunneler.     *)
(* The engine (portal-puncher-sm/src/lib.rs) owns lane_count lanes; every  *)
(* lane runs the per-state transition function of state_machine.rs.        *)
(***************************************************************************)
EXTENDS Integers, Sequences, FiniteSets, TLC

(***************************************************************************)
(* Bounds of the model.                                                    *)
(***************************************************************************)
\* lane_count of the engines of Spec and SpecPair
NumLanes == 2
\* the number of tick() calls a behaviour of Spec may hold
MaxTicks == 1
\* the number of tick() calls of each peer a behaviour of SpecPair may hold
MaxPairTicks == 1
\* lane_count of the ideal-path scenario
IdealLanes == 3
\* the number of full host cycles of the ideal-path scenario
IdealCycles == 3
LiveLanes == 1
NewLanes == 2
NewAddrs == 2
MaxPayloadLen == 2
MaxSockets == 2
MaxBindLanes == 3
MaxUnavailable == 2
Timeout == 2

\* tick_period, in units of one tick period
TickPeriod == 1

U16 == 65536

(***************************************************************************)
(* Option<T>: None is the empty sequence, Some(x) the sequence <<x>>.      *)
(***************************************************************************)
None == <<>>
Some(x) == <<x>>
IsSome(o) == Len(o) = 1
Unwrap(o) == o[1]

(***************************************************************************)
(* state.rs: LaneStatus, LaneState, BlockReason.                           *)
(***************************************************************************)
LaneStatus == {"Connecting", "Establishing", "Selected", "Blocked"}

PacketDataError == {"PacketTooShort", "WrongPreamble", "InvalidLaneStatus"}

\* BlockReason::BadPacket(e); the io::Error of ReceiveError and SendError and
\* the address of Interference are payloads no decision of the engine reads.
BadPacket(e) ==
    CASE e = "PacketTooShort" -> "BadPacket(PacketTooShort)"
      [] e = "WrongPreamble" -> "BadPacket(WrongPreamble)"
      [] e = "InvalidLaneStatus" -> "BadPacket(InvalidLaneStatus)"

BlockReason == {"ReceiveError", "SendError", "Interference",
                "BlockedByRemote", "UnexpectedTransition"}
               \cup {BadPacket(e) : e \in PacketDataError}

NoReason == "NoReason"

\* A LaneState value: the variant, the variant's sent field (FALSE for the
\* variants that have none) and the reason of a Blocked variant.
ConnectingState_new == [kind |-> "Connecting", sent |-> FALSE, reason |-> NoReason]
EstablishingState_new == [kind |-> "Establishing", sent |-> FALSE, reason |-> NoReason]
SelectedState_new == [kind |-> "Selected", sent |-> FALSE, reason |-> NoReason]
ClosedState == [kind |-> "Closed", sent |-> FALSE, reason |-> NoReason]
BlockedState(reason) == [kind |-> "Blocked", sent |-> FALSE, reason |-> reason]

LaneState_new == ConnectingState_new

is_active_not_blocked(state) == state.kind # "Blocked"
is_active(state) == state.kind \in {"Connecting", "Establishing", "Selected"}

status(state) ==
    CASE state.kind = "Connecting" -> "Connecting"
      [] state.kind = "Establishing" -> "Establishing"
      [] state.kind = "Selected" -> "Selected"
      [] state.kind = "Blocked" -> "Blocked"
      [] OTHER -> "panic"

(***************************************************************************)
(* state_machine.rs: TransitionRequest and the per-state process_packet.   *)
(***************************************************************************)
TransitionRequest == {"Remain", "Establishing", "Selected"}

Ok(t) == [tag |-> "Ok", val |-> t]
Err(r) == [tag |-> "Err", val |-> r]

can_select_any_role(is_selector, has_selected) == ~has_selected
can_select(is_selector, has_selected) == ~is_selector /\ ~has_selected

ConnectingState_process_packet_nosent(self, is_selector, has_selected, received_lane_status) ==
    CASE received_lane_status = "Establishing" /\ can_select(is_selector, has_selected) -> Ok("Selected")
      [] received_lane_status \in {"Connecting", "Establishing"} -> Ok("Establishing")
      [] received_lane_status = "Selected" -> Err("UnexpectedTransition")
      [] received_lane_status = "Blocked" -> Err("BlockedByRemote")
ConnectingState_process_packet(self, is_selector, has_selected, received_lane_status) ==
    CASE received_lane_status = "Establishing" /\ ~self.sent -> Err("UnexpectedTransition")
      [] received_lane_status = "Establishing" /\ can_select(is_selector, has_selected) -> Ok("Selected")
      [] received_lane_status \in {"Connecting", "Establishing"} -> Ok("Establishing")
      [] received_lane_status = "Selected" -> Err("UnexpectedTransition")
      [] received_lane_status = "Blocked" -> Err("BlockedByRemote")

EstablishingState_process_packet_nosent(self, is_selector, has_selected, received_lane_status) ==
    CASE received_lane_status = "Selected" /\ can_select(is_selector, has_selected) -> Err("UnexpectedTransition")
      [] received_lane_status = "Establishing" /\ can_select(is_selector, has_selected) -> Ok("Selected")
      [] received_lane_status \in {"Connecting", "Establishing"} -> Ok("Remain")
      [] received_lane_status = "Selected" -> Ok("Selected")
      [] received_lane_status = "Blocked" -> Err("BlockedByRemote")
EstablishingState_process_packet_eager(self, is_selector, has_selected, received_lane_status) ==
    CASE received_lane_status = "Selected" /\ (~self.sent \/ can_select(is_selector, has_selected)) -> Err("UnexpectedTransition")
      [] received_lane_status \in {"Connecting", "Establishing"} /\ can_select(is_selector, has_selected) -> Ok("Selected")
      [] received_lane_status \in {"Connecting", "Establishing"} -> Ok("Remain")
      [] received_lane_status = "Selected" -> Ok("Selected")
      [] received_lane_status = "Blocked" -> Err("BlockedByRemote")
EstablishingState_process_packet(self, is_selector, has_selected, received_lane_status) ==
    CASE received_lane_status = "Selected" /\ (~self.sent \/ can_select(is_selector, has_selected)) -> Err("UnexpectedTransition")
      [] received_lane_status = "Establishing" /\ can_select(is_selector, has_selected) -> Ok("Selected")
      [] received_lane_status \in {"Connecting", "Establishing"} -> Ok("Remain")
      [] received_lane_status = "Selected" -> Ok("Selected")
      [] received_lane_status = "Blocked" -> Err("BlockedByRemote")

SelectedState_process_packet_strict(self, is_selector, has_selected, received_lane_status) ==
    CASE received_lane_status \in {"Connecting", "Establishing"} -> Ok("Remain")
      [] received_lane_status = "Selected" /\ ~self.sent -> Err("UnexpectedTransition")
      [] received_lane_status = "Selected" -> Ok("Remain")
      [] received_lane_status = "Blocked" -> Err("BlockedByRemote")
SelectedState_process_packet(self, is_selector, has_selected, received_lane_status) ==
    CASE received_lane_status \in {"Connecting", "Establishing"} -> Ok("Remain")
      [] received_lane_status = "Selected" /\ is_selector /\ ~self.sent -> Err("UnexpectedTransition")
      [] received_lane_status = "Selected" -> Ok("Remain")
      [] received_lane_status = "Blocked" -> Err("BlockedByRemote")

\* The dispatch over the variant; the engine calls it on active lanes only.
LaneState_process_packet(self, is_selector, has_selected, received_lane_status) ==
    CASE self.kind = "Connecting" ->
            ConnectingState_process_packet(self, is_selector, has_selected, received_lane_status)
      [] self.kind = "Establishing" ->
            EstablishingState_process_packet(self, is_selector, has_selected, received_lane_status)
      [] self.kind = "Selected" ->
            SelectedState_process_packet(self, is_selector, has_selected, received_lane_status)
      [] OTHER -> Ok("Remain")

\* process_sent: sets sent in the active variants, nothing in the others.
LaneState_process_sent(self) ==
    IF self.kind \in {"Connecting", "Establishing", "Selected"}
    THEN [self EXCEPT !.sent = TRUE]
    ELSE self

(***************************************************************************)
(* packet.rs: the datagram format. A byte is a number in 0 .. 255 and a    *)
(* buffer a sequence of bytes.                                             *)
(***************************************************************************)
MAX_REASONABLE_PAYLOAD == 1400
PREAMBLE == <<56, 8, 66, 139, 17, 57, 66, 83>>
PREAMBLE_SIZE == Len(PREAMBLE)
LANE_STATUS_SIZE == 1
PACKET_HEADER_SIZE == PREAMBLE_SIZE + LANE_STATUS_SIZE
MAX_REASONABLE_APPLICATION_DATA == MAX_REASONABLE_PAYLOAD - PACKET_HEADER_SIZE

\* LaneStatus::into_u8 and LaneStatus::from_u8
LaneStatus_into_u8(self) ==
    CASE self = "Connecting" -> 1
      [] self = "Establishing" -> 2
      [] self = "Selected" -> 3
      [] self = "Blocked" -> 255

LaneStatus_from_u8(value) ==
    CASE value = 1 -> Some("Connecting")
      [] value = 2 -> Some("Establishing")
      [] value = 3 -> Some("Selected")
      [] value = 255 -> Some("Blocked")
      [] OTHER -> None

\* PacketData::new: Err("panic") stands for the panic on an oversized payload.
PacketData(lane_status, application_data) ==
    [lane_status |-> lane_status, application_data |-> application_data]

PacketData_new(lane_status, application_data) ==
    IF Len(application_data) > MAX_REASONABLE_APPLICATION_DATA
    THEN Err("panic")
    ELSE Ok(PacketData(lane_status, application_data))

\* PacketData::write_to: the buffer after the call and the returned length.
\* Rust indexes from 0, a TLA+ sequence from 1.
PacketData_write_to(self, buf) ==
    IF Len(buf) < PACKET_HEADER_SIZE + Len(self.application_data)
    THEN Err("panic")
    ELSE LET index == PREAMBLE_SIZE + LANE_STATUS_SIZE + Len(self.application_data)
             written == [i \in 1 .. Len(buf) |->
                            IF i <= PREAMBLE_SIZE THEN PREAMBLE[i]
                            ELSE IF i = PREAMBLE_SIZE + 1 THEN LaneStatus_into_u8(self.lane_status)
                            ELSE IF i <= index THEN self.application_data[i - PACKET_HEADER_SIZE]
                            ELSE buf[i]]
         IN  Ok([buf |-> written, length |-> index])

\* PacketData::parse
PacketData_parse_first_byte(buf) ==
    IF Len(buf) < PACKET_HEADER_SIZE THEN Err("PacketTooShort")
    ELSE IF buf[1] # PREAMBLE[1] THEN Err("WrongPreamble")
    ELSE LET lane_status == LaneStatus_from_u8(buf[PREAMBLE_SIZE + 1]) IN
         IF lane_status = None THEN Err("InvalidLaneStatus")
         ELSE Ok(PacketData(Unwrap(lane_status), SubSeq(buf, PREAMBLE_SIZE + 2, Len(buf))))
PacketData_parse(buf) ==
    IF Len(buf) < PACKET_HEADER_SIZE THEN Err("PacketTooShort")
    ELSE IF SubSeq(buf, 1, PREAMBLE_SIZE) # PREAMBLE THEN Err("WrongPreamble")
    ELSE LET lane_status == LaneStatus_from_u8(buf[PREAMBLE_SIZE + 1]) IN
         IF lane_status = None THEN Err("InvalidLaneStatus")
         ELSE Ok(PacketData(Unwrap(lane_status), SubSeq(buf, PREAMBLE_SIZE + 2, Len(buf))))

(***************************************************************************)
(* lib.rs: Lane and Puncher.                                               *)
(***************************************************************************)
Lane_new == [state |-> LaneState_new, needs_send |-> TRUE]

Sub16(x, n) == (x + U16 - n) % U16
SatAdd16(x, n) == IF x + n > U16 - 1 THEN U16 - 1 ELSE x + n

LaneIndexes(e) == 0 .. (e.lane_count - 1)

\* Puncher::new. Instant::now() of the construction is instant 0.
Puncher_new(is_server, my_port_start, remote_port_start, lane_count) ==
    [ is_server |-> is_server,
      my_port_start |-> my_port_start,
      remote_port_start |-> remote_port_start,
      lane_count |-> lane_count,
      open_lanes_count |-> lane_count,
      lanes |-> [i \in 0 .. (lane_count - 1) |-> Lane_new],
      selected_lane_index |-> None,
      next_tick_instant |-> 0 + TickPeriod,
      timeout_instant |-> 0 + Timeout,
      panicked |-> \/ my_port_start + lane_count > U16 - 1
                   \/ remote_port_start + lane_count > U16 - 1 ]

\* An IpAddr: its variant and its raw value.
IpAddr(family, raw) == [family |-> family, raw |-> raw]

\* Puncher::new of juan-puncher-sm. Vec::with_capacity makes an empty vector
\* and Vec::fill_with overwrites the elements the vector has, which are none.
Juan_Puncher_new(is_server, my_address, my_port_start, remote_address, remote_port_start, lane_count) ==
    [ is_server |-> is_server,
      my_address |-> my_address,
      my_port_start |-> my_port_start,
      remote_address |-> remote_address,
      remote_port_start |-> remote_port_start,
      lane_count |-> lane_count,
      open_lanes_count |-> lane_count,
      lanes |-> [i \in {} |-> Lane_new],
      selected_lane_index |-> None,
      last_tick_instant |-> 0,
      timeout_instant |-> 0 + Timeout,
      panicked |-> \/ my_port_start + lane_count > U16 - 1
                   \/ remote_port_start + lane_count > U16 - 1
                   \/ my_address.family # remote_address.family
                   \/ my_address.raw = remote_address.raw ]

Panic(e) == [e EXCEPT !.panicked = TRUE]

\* Puncher::block_lane
block_lane_nocount(e, lane_index, reason) ==
    IF ~is_active(e.lanes[lane_index].state)
    THEN Panic(e)
    ELSE [e EXCEPT !.lanes[lane_index] = [state |-> BlockedState(reason), needs_send |-> FALSE]]
block_lane_clear_sends(e, lane_index, reason) ==
    IF ~is_active(e.lanes[lane_index].state)
    THEN Panic(e)
    ELSE [e EXCEPT !.lanes = [i \in LaneIndexes(e) |->
                                IF i = lane_index
                                THEN [state |-> BlockedState(reason), needs_send |-> FALSE]
                                ELSE [e.lanes[i] EXCEPT !.needs_send = FALSE]],
                   !.open_lanes_count = Sub16(@, 1)]
block_lane_unselect(e, lane_index, reason) ==
    IF ~is_active(e.lanes[lane_index].state)
    THEN Panic(e)
    ELSE [e EXCEPT !.lanes[lane_index] = [state |-> BlockedState(reason), needs_send |-> FALSE],
                   !.open_lanes_count = Sub16(@, 1),
                   !.selected_lane_index = IF @ = Some(lane_index) THEN None ELSE @]
block_lane(e, lane_index, reason) ==
    IF ~is_active(e.lanes[lane_index].state)
    THEN Panic(e)
    ELSE [e EXCEPT !.lanes[lane_index] = [state |-> BlockedState(reason), needs_send |-> FALSE],
                   !.open_lanes_count = Sub16(@, 1)]

\* Puncher::set_selected_lane
set_selected_lane_keep_others(e, lane_index) ==
    IF IsSome(e.selected_lane_index)
    THEN Panic(e)
    ELSE [e EXCEPT !.selected_lane_index = Some(lane_index)]
set_selected_lane_keep_needs_send(e, lane_index) ==
    IF IsSome(e.selected_lane_index)
    THEN Panic(e)
    ELSE [e EXCEPT
            !.selected_lane_index = Some(lane_index),
            !.lanes = [i \in LaneIndexes(e) |->
                        IF i = lane_index THEN e.lanes[i]
                        ELSE [state |-> IF is_active(e.lanes[i].state) THEN ClosedState
                                        ELSE e.lanes[i].state,
                              needs_send |-> e.lanes[i].needs_send]],
            !.open_lanes_count =
                Sub16(@, Cardinality({i \in LaneIndexes(e) :
                                        i # lane_index /\ is_active(e.lanes[i].state)}))]
set_selected_lane(e, lane_index) ==
    IF IsSome(e.selected_lane_index)
    THEN Panic(e)
    ELSE [e EXCEPT
            !.selected_lane_index = Some(lane_index),
            !.lanes = [i \in LaneIndexes(e) |->
                        IF i = lane_index THEN e.lanes[i]
                        ELSE [state |-> IF is_active(e.lanes[i].state) THEN ClosedState
                                        ELSE e.lanes[i].state,
                              needs_send |-> FALSE]],
            !.open_lanes_count =
                Sub16(@, Cardinality({i \in LaneIndexes(e) :
                                        i # lane_index /\ is_active(e.lanes[i].state)}))]

\* What the host hands to received_from: an io error, or a datagram with its
\* source address (the IP is the remote's or not, the port is a number) and
\* the outcome of PacketData::parse on its bytes (an error or a lane status).
RecvErr == [ok |-> FALSE, ip_ok |-> FALSE, port |-> 0, parse |-> "PacketTooShort"]
RecvOk(ip_ok, port, parse) == [ok |-> TRUE, ip_ok |-> ip_ok, port |-> port, parse |-> parse]

\* The result of one received_from call: the engine after it, the returned
\* Option (the payload is opaque: Some("app")), the BlockReason it blocked
\* the lane with and the TransitionRequest it followed, if any.
Outcome(e, ret, blocked, transition) ==
    [engine |-> e, ret |-> ret, blocked |-> blocked, transition |-> transition]

Payload == Some("app")

\* The tail of received_from, lines 253-266: following the transition request.
apply_transition_send_selected(e, lane_index, transition) ==
    CASE transition = "Remain" -> e
      [] transition = "Establishing" ->
            [e EXCEPT !.lanes[lane_index] = [state |-> EstablishingState_new, needs_send |-> TRUE]]
      [] transition = "Selected" ->
            set_selected_lane(
                [e EXCEPT !.lanes[lane_index] =
                            [state |-> SelectedState_new, needs_send |-> TRUE]],
                lane_index)
apply_transition_keep_sent(e, lane_index, transition) ==
    CASE transition = "Remain" -> e
      [] transition = "Establishing" ->
            [e EXCEPT !.lanes[lane_index] =
                        [state |-> [EstablishingState_new EXCEPT !.sent = e.lanes[lane_index].state.sent],
                         needs_send |-> TRUE]]
      [] transition = "Selected" ->
            set_selected_lane(
                [e EXCEPT !.lanes[lane_index] =
                            [state |-> [SelectedState_new EXCEPT !.sent = e.lanes[lane_index].state.sent],
                             needs_send |-> e.is_server]],
                lane_index)
apply_transition(e, lane_index, transition) ==
    CASE transition = "Remain" -> e
      [] transition = "Establishing" ->
            [e EXCEPT !.lanes[lane_index] = [state |-> EstablishingState_new, needs_send |-> TRUE]]
      [] transition = "Selected" ->
            set_selected_lane(
                [e EXCEPT !.lanes[lane_index] =
                            [state |-> SelectedState_new, needs_send |-> e.is_server]],
                lane_index)

\* Puncher::received_from
received_from_parse_first(e, recv_result, local_port) ==
    LET lane_index == local_port - e.my_port_start IN
    IF local_port < e.my_port_start \/ lane_index >= e.lane_count
    THEN Outcome(Panic(e), None, NoReason, "None")
    ELSE
    LET lane == e.lanes[lane_index] IN
    IF ~is_active(lane.state)
    THEN Outcome(e, None, NoReason, "None")
    ELSE IF ~recv_result.ok
    THEN Outcome(block_lane(e, lane_index, "ReceiveError"), None, "ReceiveError", "None")
    ELSE IF recv_result.parse \in PacketDataError
    THEN Outcome(block_lane(e, lane_index, BadPacket(recv_result.parse)), None,
                 BadPacket(recv_result.parse), "None")
    ELSE IF ~recv_result.ip_ok
            \/ recv_result.port < e.remote_port_start
            \/ recv_result.port >= e.remote_port_start + e.lane_count
    THEN Outcome(block_lane(e, lane_index, "Interference"), None, "Interference", "None")
    ELSE IF recv_result.parse = "Blocked"
    THEN Outcome(block_lane(e, lane_index, "BlockedByRemote"), Payload, "BlockedByRemote", "None")
    ELSE
    LET has_selected == IsSome(e.selected_lane_index)
        result == LaneState_process_packet(lane.state, e.is_server, has_selected, recv_result.parse)
    IN  IF result.tag = "Err"
        THEN Outcome(block_lane(e, lane_index, result.val), Payload, result.val, "None")
        ELSE Outcome(apply_transition(e, lane_index, result.val), Payload, NoReason, result.val)
received_from_drop_blocked_payload(e, recv_result, local_port) ==
    LET lane_index == local_port - e.my_port_start IN
    IF local_port < e.my_port_start \/ lane_index >= e.lane_count
    THEN Outcome(Panic(e), None, NoReason, "None")
    ELSE
    LET lane == e.lanes[lane_index] IN
    IF ~is_active(lane.state)
    THEN Outcome(e, None, NoReason, "None")
    ELSE IF ~recv_result.ok
    THEN Outcome(block_lane(e, lane_index, "ReceiveError"), None, "ReceiveError", "None")
    ELSE IF ~recv_result.ip_ok
            \/ recv_result.port < e.remote_port_start
            \/ recv_result.port >= e.remote_port_start + e.lane_count
    THEN Outcome(block_lane(e, lane_index, "Interference"), None, "Interference", "None")
    ELSE IF recv_result.parse \in PacketDataError
    THEN Outcome(block_lane(e, lane_index, BadPacket(recv_result.parse)), None,
                 BadPacket(recv_result.parse), "None")
    ELSE IF recv_result.parse = "Blocked"
    THEN Outcome(block_lane(e, lane_index, "BlockedByRemote"), None, "BlockedByRemote", "None")
    ELSE
    LET has_selected == IsSome(e.selected_lane_index)
        result == LaneState_process_packet(lane.state, e.is_server, has_selected, recv_result.parse)
    IN  IF result.tag = "Err"
        THEN Outcome(block_lane(e, lane_index, result.val), Payload, result.val, "None")
        ELSE Outcome(apply_transition(e, lane_index, result.val), Payload, NoReason, result.val)
received_from(e, recv_result, local_port) ==
    LET lane_index == local_port - e.my_port_start IN
    IF local_port < e.my_port_start \/ lane_index >= e.lane_count
    THEN Outcome(Panic(e), None, NoReason, "None")
    ELSE
    LET lane == e.lanes[lane_index] IN
    IF ~is_active(lane.state)
    THEN Outcome(e, None, NoReason, "None")
    ELSE IF ~recv_result.ok
    THEN Outcome(block_lane(e, lane_index, "ReceiveError"), None, "ReceiveError", "None")
    ELSE IF ~recv_result.ip_ok
            \/ recv_result.port < e.remote_port_start
            \/ recv_result.port >= e.remote_port_start + e.lane_count
    THEN Outcome(block_lane(e, lane_index, "Interference"), None, "Interference", "None")
    ELSE IF recv_result.parse \in PacketDataError
    THEN Outcome(block_lane(e, lane_index, BadPacket(recv_result.parse)), None,
                 BadPacket(recv_result.parse), "None")
    ELSE IF recv_result.parse = "Blocked"
    THEN Outcome(block_lane(e, lane_index, "BlockedByRemote"), Payload, "BlockedByRemote", "None")
    ELSE
    LET has_selected == IsSome(e.selected_lane_index)
        result == LaneState_process_packet(lane.state, e.is_server, has_selected, recv_result.parse)
    IN  IF result.tag = "Err"
        THEN Outcome(block_lane(e, lane_index, result.val), Payload, result.val, "None")
        ELSE Outcome(apply_transition(e, lane_index, result.val), Payload, NoReason, result.val)

\* Puncher::get_next_lane_index_needing_resend: the lowest lane that needs a send
next_lane_index_needing_resend_highest(e) ==
    LET need == {i \in LaneIndexes(e) : e.lanes[i].needs_send} IN
    IF need = {} THEN None
    ELSE Some(CHOOSE i \in need : \A j \in need : i >= j)
next_lane_index_needing_resend(e) ==
    LET need == {i \in LaneIndexes(e) : e.lanes[i].needs_send} IN
    IF need = {} THEN None
    ELSE Some(CHOOSE i \in need : \A j \in need : i <= j)

\* Puncher::send_to: the engine after the call and the returned Option<SendInfo>
\* (with the status byte written to the buffer).
send_to(e) ==
    LET next == next_lane_index_needing_resend(e) IN
    IF ~IsSome(next)
    THEN [engine |-> e, info |-> None]
    ELSE
    LET lane_index == Unwrap(next)
        cleared == [e EXCEPT !.lanes[lane_index].needs_send = FALSE]
        sent == [cleared EXCEPT !.lanes[lane_index].state = LaneState_process_sent(@)]
    IN  IF sent.lanes[lane_index].state.kind = "Closed"
        THEN [engine |-> Panic(sent), info |-> None]
        ELSE [engine |-> sent,
              info |-> Some([from_port |-> SatAdd16(e.my_port_start, lane_index),
                             to_port |-> e.remote_port_start + lane_index,
                             lane_status |-> status(sent.lanes[lane_index].state)])]

\* Puncher::send_failed
send_failed_unguarded(e, local_port) ==
    LET lane_index == local_port - e.my_port_start IN
    IF local_port < e.my_port_start \/ lane_index >= e.lane_count
    THEN Panic(e)
    ELSE block_lane(e, lane_index, "SendError")
send_failed(e, local_port) ==
    LET lane_index == local_port - e.my_port_start IN
    IF local_port < e.my_port_start \/ lane_index >= e.lane_count
    THEN Panic(e)
    ELSE IF is_active(e.lanes[lane_index].state)
         THEN block_lane(e, lane_index, "SendError")
         ELSE e

\* Puncher::next_tick_instant (the method; the field has the same name)
Min(a, b) == IF a <= b THEN a ELSE b

Puncher_next_tick_instant_min_always(e) ==
    IF (~e.is_server /\ IsSome(e.selected_lane_index)) \/ e.open_lanes_count = 0
    THEN None
    ELSE Some(Min(e.next_tick_instant, e.timeout_instant))
Puncher_next_tick_instant(e) ==
    IF (~e.is_server /\ IsSome(e.selected_lane_index)) \/ e.open_lanes_count = 0
    THEN None
    ELSE LET next_tick == e.next_tick_instant IN
         IF ~IsSome(e.selected_lane_index)
         THEN Some(Min(next_tick, e.timeout_instant))
         ELSE Some(next_tick)

\* Puncher::tick
tick_selected_always(e) ==
    [e EXCEPT
        !.next_tick_instant = @ + TickPeriod,
        !.lanes =
            IF IsSome(e.selected_lane_index)
            THEN [e.lanes EXCEPT ![Unwrap(e.selected_lane_index)].needs_send = TRUE]
            ELSE [i \in LaneIndexes(e) |->
                    [e.lanes[i] EXCEPT !.needs_send =
                        CASE e.lanes[i].state.kind \in {"Connecting", "Establishing"} -> TRUE
                          [] e.lanes[i].state.kind = "Selected" -> e.is_server
                          [] OTHER -> FALSE]]]
tick_no_rearm(e) == [e EXCEPT !.next_tick_instant = @ + TickPeriod]
tick(e) ==
    [e EXCEPT
        !.next_tick_instant = @ + TickPeriod,
        !.lanes =
            IF IsSome(e.selected_lane_index)
            THEN [e.lanes EXCEPT ![Unwrap(e.selected_lane_index)].needs_send = e.is_server]
            ELSE [i \in LaneIndexes(e) |->
                    [e.lanes[i] EXCEPT !.needs_send =
                        CASE e.lanes[i].state.kind \in {"Connecting", "Establishing"} -> TRUE
                          [] e.lanes[i].state.kind = "Selected" -> e.is_server
                          [] OTHER -> FALSE]]]

\* Puncher::poll; deadline_passed is Instant::now() >= timeout_instant.
Ports(local, remote) == [local |-> local, remote |-> remote]

poll_timeout_first(e, deadline_passed) ==
    IF deadline_passed THEN <<"Timeout">>
    ELSE IF IsSome(e.selected_lane_index)
    THEN LET ports == Ports(SatAdd16(e.my_port_start, Unwrap(e.selected_lane_index)),
                            SatAdd16(e.remote_port_start, Unwrap(e.selected_lane_index)))
         IN  IF e.is_server THEN <<"Listen", ports>> ELSE <<"Connect", ports>>
    ELSE IF e.open_lanes_count = 0 THEN <<"Failed">>
    ELSE <<"Wait">>
poll(e, deadline_passed) ==
    IF IsSome(e.selected_lane_index)
    THEN LET ports == Ports(SatAdd16(e.my_port_start, Unwrap(e.selected_lane_index)),
                            SatAdd16(e.remote_port_start, Unwrap(e.selected_lane_index)))
         IN  IF e.is_server THEN <<"Listen", ports>> ELSE <<"Connect", ports>>
    ELSE IF e.open_lanes_count = 0 THEN <<"Failed">>
    ELSE IF deadline_passed THEN <<"Timeout">>
    ELSE <<"Wait">>

\* Puncher::poll called when Instant::now() reads now.
poll_at(e, now) == poll(e, now >= e.timeout_instant)

\* The instants a clock may read: from the construction to past the deadline.
Instants == 0 .. (Timeout + 1)

(***************************************************************************)
(* The state: one engine under arbitrary host calls (Spec), and a client   *)
(* and a server engine joined by a network (SpecPair).                     *)
(***************************************************************************)
VARIABLES puncher, peer, net, call, wire, host

vars == <<puncher, peer, net, call, wire, host>>

\* The port ranges of the two peers.
ClientPortStart == 40000
ServerPortStart == 50000

MyPortStart(is_server) == IF is_server THEN ServerPortStart ELSE ClientPortStart
RemotePortStart(is_server) == IF is_server THEN ClientPortStart ELSE ServerPortStart

NewPeer(is_server, lane_count) ==
    Puncher_new(is_server, MyPortStart(is_server), RemotePortStart(is_server), lane_count)

\* The datagrams and errors a host may hand to an engine: a receive error,
\* datagrams of a foreign source (wrong IP, port below or above the remote
\* range) and datagrams of the remote range, each well or badly formed.
RecvResults(e) ==
    {RecvErr}
    \cup {RecvOk(FALSE, e.remote_port_start, parse) : parse \in {"Connecting", "WrongPreamble"}}
    \cup {RecvOk(TRUE, port, parse) :
            port \in {e.remote_port_start - 1, e.remote_port_start + e.lane_count},
            parse \in {"Connecting", "WrongPreamble"}}
    \cup {RecvOk(TRUE, port, parse) :
            port \in {e.remote_port_start, e.remote_port_start + e.lane_count - 1},
            parse \in PacketDataError \cup LaneStatus}

\* The lane status of a datagram that gets as far as the state machine.
Datagram(e, lane_status) == RecvOk(TRUE, e.remote_port_start, lane_status)

Roles == {"client", "server"}
Other(p) == IF p = "client" THEN "server" ELSE "client"

\* A datagram in flight, as send_to addressed it.
Packet(info) ==
    [from_port |-> info.from_port, to_port |-> info.to_port, lane_status |-> info.lane_status]

\* The datagrams one send_to call puts on the network.
Emitted(out) == IF IsSome(out.info) THEN {Packet(Unwrap(out.info))} ELSE {}

\* The host hands a delivered datagram to the engine with the port it came in on.
Deliver(e, pkt) == received_from(e, RecvOk(TRUE, pkt.from_port, pkt.lane_status), pkt.to_port).engine

AddressedTo(e, pkt) ==
    pkt.to_port >= e.my_port_start /\ pkt.to_port < e.my_port_start + e.lane_count

\* The host loop of punch_connection: "send" drains send_to, "wait" receives a
\* datagram or ticks, "done" follows a poll() of Connect or Listen.
NewHost == [phase |-> [p \in Roles |-> "send"], ticks |-> [p \in Roles |-> 0]]

InitPeers ==
    /\ peer = [r \in Roles |-> NewPeer(r = "server", NumLanes)]
    /\ net = {}
    /\ wire = [r \in Roles |-> <<>>]
    /\ host = NewHost

\* One call of process_packet: the lane state it is called on, its three
\* arguments and, once it has returned, its result.
ProcessPacketCall(self, is_selector, has_selected, received_lane_status, result) ==
    [self |-> self, is_selector |-> is_selector, has_selected |-> has_selected,
     received_lane_status |-> received_lane_status, result |-> result]

NoCall == ProcessPacketCall(LaneState_new, FALSE, FALSE, "Connecting", None)

Init ==
    /\ puncher \in {NewPeer(is_server, NumLanes) : is_server \in BOOLEAN}
    /\ InitPeers
    /\ call = NoCall

ReceivedFrom ==
    /\ ~puncher.panicked
    /\ \E lane_index \in LaneIndexes(puncher), r \in RecvResults(puncher) :
        puncher' = received_from(puncher, r, puncher.my_port_start + lane_index).engine
    /\ UNCHANGED <<peer, net, call, wire, host>>

SendTo ==
    /\ ~puncher.panicked
    /\ puncher' = send_to(puncher).engine
    /\ UNCHANGED <<peer, net, call, wire, host>>

SendFailed ==
    /\ ~puncher.panicked
    /\ \E lane_index \in LaneIndexes(puncher) :
        puncher' = send_failed(puncher, puncher.my_port_start + lane_index)
    /\ UNCHANGED <<peer, net, call, wire, host>>

Tick ==
    /\ ~puncher.panicked
    /\ puncher.next_tick_instant <= MaxTicks * TickPeriod
    /\ puncher' = tick(puncher)
    /\ UNCHANGED <<peer, net, call, wire, host>>

Next == ReceivedFrom \/ SendTo \/ SendFailed \/ Tick

Spec == Init /\ [][Next]_vars

(***************************************************************************)
(* SpecTable: process_packet as a function, called once on every active    *)
(* lane state with every combination of its arguments.                     *)
(***************************************************************************)
ActiveStates ==
    {[kind |-> k, sent |-> b, reason |-> NoReason] :
        k \in {"Connecting", "Establishing", "Selected"}, b \in BOOLEAN}

InitTable ==
    /\ puncher = NewPeer(FALSE, NumLanes)
    /\ InitPeers
    /\ call \in {ProcessPacketCall(self, is_selector, has_selected, st, None) :
                    self \in ActiveStates, is_selector \in BOOLEAN,
                    has_selected \in BOOLEAN, st \in LaneStatus}

ProcessPacket ==
    /\ call.result = None
    /\ call' = [call EXCEPT !.result =
                    Some(LaneState_process_packet(call.self, call.is_selector,
                                                  call.has_selected, call.received_lane_status))]
    /\ UNCHANGED <<puncher, peer, net, wire, host>>

NextTable == ProcessPacket

SpecTable == InitTable /\ [][NextTable]_vars

(***************************************************************************)
(* SpecPair: a client and a server engine with the same lane count; every  *)
(* datagram is one the peer's send_to wrote, addressed to the paired lane. *)
(* The network keeps every datagram sent and delivers any of them at any   *)
(* time, any number of times (delay, reordering, duplication); a datagram  *)
(* never delivered is a lost one.                                          *)
(***************************************************************************)
InitPair ==
    /\ puncher = NewPeer(FALSE, NumLanes)
    /\ InitPeers
    /\ call = NoCall

PairSendTo(p) ==
    /\ ~peer[p].panicked
    /\ LET out == send_to(peer[p]) IN
        /\ peer' = [peer EXCEPT ![p] = out.engine]
        /\ net' = net \cup Emitted(out)
    /\ UNCHANGED <<puncher, call, wire, host>>

PairReceivedFrom(p) ==
    /\ ~peer[p].panicked
    /\ \E pkt \in net :
        /\ AddressedTo(peer[p], pkt)
        /\ peer' = [peer EXCEPT ![p] = Deliver(peer[p], pkt)]
    /\ UNCHANGED <<puncher, net, call, wire, host>>

PairTick(p) ==
    /\ ~peer[p].panicked
    /\ peer[p].next_tick_instant <= MaxPairTicks * TickPeriod
    /\ peer' = [peer EXCEPT ![p] = tick(peer[p])]
    /\ UNCHANGED <<puncher, net, call, wire, host>>

NextPair == \E p \in Roles : PairSendTo(p) \/ PairReceivedFrom(p) \/ PairTick(p)

SpecPair == InitPair /\ [][NextPair]_vars

(***************************************************************************)
(* SpecIdeal: the two hosts run the loop of punch_connection over a        *)
(* network that neither loses nor reorders nor duplicates: wire[p] holds   *)
(* the datagrams addressed to p in the order they were sent. A timer       *)
(* expires only once nothing else is left to do (the tick period is long   *)
(* against the delivery time), and the two timers alternate.               *)
(***************************************************************************)
InitIdeal ==
    /\ puncher = NewPeer(FALSE, NumLanes)
    /\ peer = [r \in Roles |-> NewPeer(r = "server", IdealLanes)]
    /\ net = {}
    /\ wire = [r \in Roles |-> <<>>]
    /\ host = NewHost
    /\ call = NoCall

\* The phase after the poll() that ends an iteration of the loop.
AfterPoll(e) ==
    IF poll(e, FALSE)[1] \in {"Connect", "Listen"} THEN "done" ELSE "send"

\* recv_from_any: the first datagram queued on the lowest ready socket.
NextReceived(queue) ==
    LET ports == {queue[k].to_port : k \in 1 .. Len(queue)}
        lowest == CHOOSE x \in ports : \A y \in ports : x <= y
    IN  CHOOSE k \in 1 .. Len(queue) :
            /\ queue[k].to_port = lowest
            /\ \A j \in 1 .. (k - 1) : queue[j].to_port # lowest

RemoveAt(queue, k) == SubSeq(queue, 1, k - 1) \o SubSeq(queue, k + 1, Len(queue))

\* Nothing is left to do but wait: a host that has left its loop receives no
\* more, the other has sent and received everything.
Quiescent ==
    \A q \in Roles :
        host.phase[q] = "done" \/ (host.phase[q] = "wait" /\ wire[q] = <<>>)

\* while let Some(send_info) = puncher.send_to(..) { socket.send_to(..) }
IdealSendTo(p) ==
    /\ host.phase[p] = "send"
    /\ LET out == send_to(peer[p]) IN
        /\ peer' = [peer EXCEPT ![p] = out.engine]
        /\ IF IsSome(out.info)
           THEN /\ wire' = [wire EXCEPT ![Other(p)] = Append(@, Packet(Unwrap(out.info)))]
                /\ host' = host
           ELSE /\ wire' = wire
                /\ host' = [host EXCEPT !.phase[p] = "wait"]
    /\ UNCHANGED <<puncher, net, call>>

\* select! { recv_from_any => puncher.received_from(..) }, then poll()
IdealReceivedFrom(p) ==
    /\ host.phase[p] = "wait"
    /\ wire[p] # <<>>
    /\ LET k == NextReceived(wire[p])
           e == Deliver(peer[p], wire[p][k])
       IN  /\ peer' = [peer EXCEPT ![p] = e]
           /\ wire' = [wire EXCEPT ![p] = RemoveAt(@, k)]
           /\ host' = [host EXCEPT !.phase[p] = AfterPoll(e)]
    /\ UNCHANGED <<puncher, net, call>>

\* select! { sleep_until_if_some(next_tick_instant) => puncher.tick() }, then poll()
IdealTick(p) ==
    /\ host.phase[p] = "wait"
    /\ Quiescent
    /\ host.ticks[p] < IdealCycles
    /\ host.phase[Other(p)] = "done" \/ host.ticks[p] <= host.ticks[Other(p)]
    /\ LET e == tick(peer[p]) IN
        /\ peer' = [peer EXCEPT ![p] = e]
        /\ host' = [host EXCEPT !.phase[p] = AfterPoll(e), !.ticks[p] = @ + 1]
    /\ UNCHANGED <<puncher, net, call, wire>>

NextIdeal == \E p \in Roles : IdealSendTo(p) \/ IdealReceivedFrom(p) \/ IdealTick(p)

SpecIdeal == InitIdeal /\ [][NextIdeal]_vars

(***************************************************************************)
(* SpecLive: a client and a server engine over a fair-lossy network. Each  *)
(* lane holds at most one datagram in flight per direction: a datagram     *)
(* sent while another is in flight on the lane replaces it (the older one  *)
(* is lost), and a datagram in flight is delivered once or dropped. Both   *)
(* hosts drain send_to and tick once send_to has returned None, forever    *)
(* (weak fairness), and a lane that                                        *)
(* has a datagram in flight again and again eventually delivers one        *)
(* (strong fairness per lane and direction). Source addresses are the      *)
(* peer's and no socket fails. Time is counted in ticks taken:             *)
(* next_tick_instant is held at its first value, since no decision of the  *)
(* engine reads it.                                                        *)
(***************************************************************************)
\* The loop of punch_connection sleeps until the next tick only once send_to
\* has returned None.
Drained(e) == ~IsSome(next_lane_index_needing_resend(e))

LivePorts == {MyPortStart(p = "server") + i : p \in Roles, i \in 0 .. (LiveLanes - 1)}

InitLive ==
    /\ puncher = NewPeer(FALSE, NumLanes)
    /\ peer = [r \in Roles |-> NewPeer(r = "server", LiveLanes)]
    /\ net = {}
    /\ wire = [r \in Roles |-> <<>>]
    /\ host = NewHost
    /\ call = NoCall

LiveSendTo(p) ==
    /\ LET out == send_to(peer[p]) IN
        /\ peer' = [peer EXCEPT ![p] = out.engine]
        /\ net' = {old \in net : \A pkt \in Emitted(out) : old.to_port # pkt.to_port}
                        \cup Emitted(out)
    /\ UNCHANGED <<puncher, call, wire, host>>

LiveDeliver(to_port) ==
    /\ \E pkt \in net :
        /\ pkt.to_port = to_port
        /\ \E p \in Roles :
            /\ AddressedTo(peer[p], pkt)
            /\ peer' = [peer EXCEPT ![p] = Deliver(peer[p], pkt)]
        /\ net' = net \ {pkt}
    /\ UNCHANGED <<puncher, call, wire, host>>

LiveDrop(to_port) ==
    /\ \E pkt \in net :
        /\ pkt.to_port = to_port
        /\ net' = net \ {pkt}
    /\ UNCHANGED <<puncher, peer, call, wire, host>>

LiveTick(p) ==
    /\ Drained(peer[p])
    /\ peer' = [peer EXCEPT ![p] =
                    [tick(peer[p]) EXCEPT !.next_tick_instant = peer[p].next_tick_instant]]
    /\ UNCHANGED <<puncher, net, call, wire, host>>

NextLive ==
    \/ \E p \in Roles : LiveSendTo(p) \/ LiveTick(p)
    \/ \E to_port \in LivePorts : LiveDeliver(to_port) \/ LiveDrop(to_port)

FairLive ==
    /\ \A p \in Roles : WF_vars(LiveTick(p)) /\ WF_vars(LiveSendTo(p))
    /\ \A to_port \in LivePorts : SF_vars(LiveDeliver(to_port))

SpecLive == InitLive /\ [][NextLive]_vars /\ FairLive

(***************************************************************************)
(* SpecNew: the constructors as functions of their arguments. The initial  *)
(* state draws the arguments (port ranges that start low or end at the top *)
(* of the u16 range, lane counts, and the local and remote IP addresses of *)
(* the host); Construct builds the engine of portal-puncher-sm, which is   *)
(* not given the local address, and ConstructJuan that of juan-puncher-sm. *)
(***************************************************************************)
PortChoices == {1} \cup ((U16 - NewLanes - 1) .. (U16 - 1))
Addresses == {IpAddr(family, raw) : family \in {"V4", "V6"}, raw \in 1 .. NewAddrs}

NewCall(is_server, my_address, my_port_start, remote_address, remote_port_start, lane_count) ==
    [ is_server |-> is_server,
      my_address |-> my_address,
      my_port_start |-> my_port_start,
      remote_address |-> remote_address,
      remote_port_start |-> remote_port_start,
      lane_count |-> lane_count,
      built |-> "nothing" ]

InitNew ==
    /\ puncher = NewPeer(FALSE, NumLanes)
    /\ InitPeers
    /\ \E is_server \in BOOLEAN : \E my_address \in Addresses : \E remote_address \in Addresses :
        \E my_port_start \in PortChoices : \E remote_port_start \in PortChoices :
        \E lane_count \in 1 .. NewLanes :
            call = NewCall(is_server, my_address, my_port_start, remote_address,
                           remote_port_start, lane_count)

Construct ==
    /\ call.built = "nothing"
    /\ puncher' = Puncher_new(call.is_server, call.my_port_start, call.remote_port_start,
                               call.lane_count)
    /\ call' = [call EXCEPT !.built = "portal-puncher-sm"]
    /\ UNCHANGED <<peer, net, wire, host>>

ConstructJuan ==
    /\ call.built = "nothing"
    /\ puncher' = Juan_Puncher_new(call.is_server, call.my_address, call.my_port_start,
                                    call.remote_address, call.remote_port_start, call.lane_count)
    /\ call' = [call EXCEPT !.built = "juan-puncher-sm"]
    /\ UNCHANGED <<peer, net, wire, host>>

NextNew == Construct \/ ConstructJuan

SpecNew == InitNew /\ [][NextNew]_vars

(***************************************************************************)
(* SpecCodec: the codec as functions. The initial state draws a lane       *)
(* status and an application payload: every short payload over a few byte  *)
(* values, and the longest payload PacketData::new accepts and the first   *)
(* it refuses. Write encodes it into the host's buffer and keeps the       *)
(* written bytes, as the host sends buf[..length]; Corrupt flips one bit   *)
(* of the preamble in transit; Parse decodes what arrived.                 *)
(***************************************************************************)
PayloadBytes == {0, 56, 255}

RECURSIVE Payloads(_)
Payloads(n) ==
    IF n = 0 THEN {<<>>}
    ELSE Payloads(n - 1) \cup {Append(d, b) : d \in Payloads(n - 1), b \in PayloadBytes}

LongPayloads ==
    {[i \in 1 .. n |-> 255] :
        n \in {MAX_REASONABLE_APPLICATION_DATA, MAX_REASONABLE_APPLICATION_DATA + 1}}

\* The bit `bit` (0 is the lowest) of byte b, inverted.
FlipBit(b, bit) ==
    IF (b \div (2 ^ bit)) % 2 = 1 THEN b - 2 ^ bit ELSE b + 2 ^ bit

CodecCall(lane_status, application_data) ==
    [ lane_status |-> lane_status,
      application_data |-> application_data,
      datagram |-> None,
      length |-> None,
      flipped |-> None,
      parsed |-> None,
      panicked |-> FALSE ]

InitCodec ==
    /\ puncher = NewPeer(FALSE, NumLanes)
    /\ InitPeers
    /\ \E lane_status \in LaneStatus :
        \E application_data \in Payloads(MaxPayloadLen) \cup LongPayloads :
            call = CodecCall(lane_status, application_data)

Write ==
    /\ call.datagram = None /\ ~call.panicked
    /\ LET data == PacketData_new(call.lane_status, call.application_data)
           buf == [i \in 1 .. MAX_REASONABLE_PAYLOAD |-> 0]
       IN  IF data.tag = "Err"
           THEN call' = [call EXCEPT !.panicked = TRUE]
           ELSE LET out == PacketData_write_to(data.val, buf) IN
                IF out.tag = "Err"
                THEN call' = [call EXCEPT !.panicked = TRUE]
                ELSE call' = [call EXCEPT
                                !.datagram = Some(SubSeq(out.val.buf, 1, out.val.length)),
                                !.length = Some(out.val.length)]
    /\ UNCHANGED <<puncher, peer, net, wire, host>>

Corrupt ==
    /\ call.datagram # None /\ call.flipped = None /\ call.parsed = None
    /\ \E byte \in 1 .. PREAMBLE_SIZE : \E bit \in 0 .. 7 :
        call' = [call EXCEPT
                    !.datagram = Some([Unwrap(call.datagram) EXCEPT ![byte] = FlipBit(@, bit)]),
                    !.flipped = Some(<<byte, bit>>)]
    /\ UNCHANGED <<puncher, peer, net, wire, host>>

Parse ==
    /\ call.datagram # None /\ call.parsed = None
    /\ call' = [call EXCEPT !.parsed = Some(PacketData_parse(Unwrap(call.datagram)))]
    /\ UNCHANGED <<puncher, peer, net, wire, host>>

NextCodec == Write \/ Corrupt \/ Parse

SpecCodec == InitCodec /\ [][NextCodec]_vars

(***************************************************************************)
(* portal/src/puncher/connection_code.rs: the connection code a server     *)
(* shows to the user and a client is given. A byte is a number in 0..255,  *)
(* a u16 a number in 0..65535. A u64 is kept as its four 16-bit limbs,     *)
(* least significant first, so that no value leaves the range of the       *)
(* model's integers. A base-64 string is the sequence of the alphabet      *)
(* indexes (0..63) of its characters.                                      *)
(***************************************************************************)
CONNECTION_CODE_MAX_LENGTH_BYTES == 17 + 2 + 2 + 8 + 2

Bit(b, k) == (b \div (2 ^ k)) % 2

count_ones(b) ==
    Bit(b, 0) + Bit(b, 1) + Bit(b, 2) + Bit(b, 3) + Bit(b, 4) + Bit(b, 5) + Bit(b, 6) + Bit(b, 7)

RECURSIVE BitXorFrom(_, _, _)
BitXorFrom(a, b, k) ==
    IF k = 8 THEN 0
    ELSE ((Bit(a, k) + Bit(b, k)) % 2) * (2 ^ k) + BitXorFrom(a, b, k + 1)

BitXor(a, b) == BitXorFrom(a, b, 0)

u16_to_le_bytes(x) == <<x % 256, x \div 256>>
u16_from_le_bytes(b) == b[1] + 256 * b[2]

U64(x) == <<x % U16, x \div U16, 0, 0>>
u64_to_le_bytes(x) ==
    u16_to_le_bytes(x[1]) \o u16_to_le_bytes(x[2]) \o u16_to_le_bytes(x[3]) \o u16_to_le_bytes(x[4])
u64_from_le_bytes(b) ==
    << u16_from_le_bytes(SubSeq(b, 1, 2)), u16_from_le_bytes(SubSeq(b, 3, 4)),
       u16_from_le_bytes(SubSeq(b, 5, 6)), u16_from_le_bytes(SubSeq(b, 7, 8)) >>

Ipv4Addr(octets) == [family |-> "V4", octets |-> octets]
Ipv6Addr(octets) == [family |-> "V6", octets |-> octets]

ConnectionCode(address, port_start, lane_count, timestamp) ==
    [ address |-> address,
      port_start |-> port_start,
      lane_count |-> lane_count,
      timestamp |-> timestamp ]

\* The loop of calc_checksum after its first n elements: <<ones_count, xored>>.
RECURSIVE calc_checksum_loop(_, _)
calc_checksum_loop(buf, n) ==
    IF n = 0
    THEN <<0, 105>>
    ELSE LET before == calc_checksum_loop(buf, n - 1) IN
         << (before[1] + count_ones(buf[n])) % 256, BitXor(before[2], buf[n]) >>

calc_checksum(buf) ==
    LET after == calc_checksum_loop(buf, Len(buf)) IN after[2] + after[1] * 256

\* Returns the buffer after the write and the number of bytes written.
ConnectionCode_serialize_to_bytes(self, buf) ==
    LET head == IF self.address.family = "V4"
                THEN <<4>> \o self.address.octets
                ELSE <<6>> \o self.address.octets
        body == head \o u16_to_le_bytes(self.port_start)
                     \o u16_to_le_bytes(self.lane_count)
                     \o u64_to_le_bytes(self.timestamp)
        written == body \o u16_to_le_bytes(calc_checksum(body))
        index == Len(written)
    IN  [ buf |-> [i \in 1 .. Len(buf) |-> IF i <= index THEN written[i] ELSE buf[i]],
          index |-> index ]

\* BASE64_URL_SAFE_NO_PAD.encode_string: three bytes make four characters,
\* a last group of one or two bytes makes two or three, without padding.
RECURSIVE base64_encode(_)
base64_encode(bytes) ==
    IF Len(bytes) = 0 THEN <<>>
    ELSE IF Len(bytes) = 1
    THEN << bytes[1] \div 4, (bytes[1] % 4) * 16 >>
    ELSE IF Len(bytes) = 2
    THEN << bytes[1] \div 4, (bytes[1] % 4) * 16 + bytes[2] \div 16, (bytes[2] % 16) * 4 >>
    ELSE << bytes[1] \div 4, (bytes[1] % 4) * 16 + bytes[2] \div 16,
            (bytes[2] % 16) * 4 + bytes[3] \div 64, bytes[3] % 64 >>
         \o base64_encode(SubSeq(bytes, 4, Len(bytes)))

\* The bytes of a string whose length and trailing bits are valid.
RECURSIVE base64_decode_bytes(_)
base64_decode_bytes(string) ==
    IF Len(string) < 2 THEN <<>>
    ELSE IF Len(string) = 2
    THEN << string[1] * 4 + string[2] \div 16 >>
    ELSE IF Len(string) = 3
    THEN << string[1] * 4 + string[2] \div 16, (string[2] % 16) * 16 + string[3] \div 4 >>
    ELSE << string[1] * 4 + string[2] \div 16, (string[2] % 16) * 16 + string[3] \div 4,
            (string[3] % 4) * 64 + string[4] >>
         \o base64_decode_bytes(SubSeq(string, 5, Len(string)))

\* BASE64_URL_SAFE_NO_PAD.decode_slice into a buffer of buf_len bytes: the
\* decoded bytes, or OutputSliceTooSmall, or DecodeError for a length that
\* no encoding has or for non-zero bits after the last whole byte.
base64_decode_slice(string, buf_len) ==
    LET n == Len(string)
        last == string[n]
    IN  IF ((n + 3) \div 4) * 3 > buf_len THEN Err("OutputSliceTooSmall")
        ELSE IF n % 4 = 1 THEN Err("DecodeError")
        ELSE IF n % 4 = 2 /\ last % 16 # 0 THEN Err("DecodeError")
        ELSE IF n % 4 = 3 /\ last % 4 # 0 THEN Err("DecodeError")
        ELSE Ok(base64_decode_bytes(string))

ConnectionCode_serialize_to_string(self) ==
    LET buf == [i \in 1 .. CONNECTION_CODE_MAX_LENGTH_BYTES |-> 0]
        out == ConnectionCode_serialize_to_bytes(self, buf)
    IN  base64_encode(SubSeq(out.buf, 1, out.index))

check_buf_len(buf, min_len) ==
    IF Len(buf) >= min_len THEN Ok(<<>>) ELSE Err("UnexpectedEnd")

\* deserialize_from_bytes after the address: index is the number of bytes
\* read so far. The sum test is the flag of port_start.overflowing_add.
deserialize_after_address(buf, address, index) ==
    IF check_buf_len(buf, index + 2).tag = "Err" THEN Err("UnexpectedEnd")
    ELSE IF check_buf_len(buf, index + 4).tag = "Err" THEN Err("UnexpectedEnd")
    ELSE
    LET port_start == u16_from_le_bytes(SubSeq(buf, index + 1, index + 2))
        lane_count_u16 == u16_from_le_bytes(SubSeq(buf, index + 3, index + 4))
    IN  IF lane_count_u16 = 0 THEN Err("ZeroLaneCount")
        ELSE IF port_start + lane_count_u16 > U16 - 1
        THEN Err("OverflowingLaneCount")
        ELSE IF check_buf_len(buf, index + 12).tag = "Err" THEN Err("UnexpectedEnd")
        ELSE IF check_buf_len(buf, index + 14).tag = "Err" THEN Err("UnexpectedEnd")
        ELSE IF u16_from_le_bytes(SubSeq(buf, index + 13, index + 14))
                    # calc_checksum(SubSeq(buf, 1, index + 12))
        THEN Err("BadChecksum")
        ELSE IF Len(buf) # index + 14 THEN Err("TooLong")
        ELSE Ok(ConnectionCode(address, port_start, lane_count_u16,
                               u64_from_le_bytes(SubSeq(buf, index + 5, index + 12))))

\* Err("panic") stands for the panic of buf[0] on an empty buffer, which
\* check_buf_len(buf, 0) lets through.
ConnectionCode_deserialize_from_bytes(buf) ==
    IF check_buf_len(buf, 0).tag = "Err" THEN Err("UnexpectedEnd")
    ELSE IF Len(buf) = 0 THEN Err("panic")
    ELSE IF buf[1] = 4
    THEN IF check_buf_len(buf, 5).tag = "Err" THEN Err("UnexpectedEnd")
         ELSE deserialize_after_address(buf, Ipv4Addr(SubSeq(buf, 2, 5)), 5)
    ELSE IF buf[1] = 6
    THEN IF check_buf_len(buf, 17).tag = "Err" THEN Err("UnexpectedEnd")
         ELSE deserialize_after_address(buf, Ipv6Addr(SubSeq(buf, 2, 17)), 17)
    ELSE Err("InvalidIpTypeByte")

ConnectionCode_deserialize_from_str(string) ==
    LET decoded == base64_decode_slice(string, CONNECTION_CODE_MAX_LENGTH_BYTES + 2) IN
    IF decoded.tag = "Ok" THEN ConnectionCode_deserialize_from_bytes(decoded.val)
    ELSE IF decoded.val = "OutputSliceTooSmall" THEN Err("TooLong")
    ELSE Err("InvalidBase64")

(***************************************************************************)
(* SpecCode: the connection code as functions. The initial state draws a   *)
(* code: an IPv4 or IPv6 address, a first port, a non-zero lane count and  *)
(* a timestamp. SerializeToString is what the server prints;               *)
(* DeserializeFromStr is what the client does with the string it is given, *)
(* which on its way may have had one character replaced or its end cut     *)
(* off. SerializeToBytes and DeserializeFromBytes are the same on bytes.   *)
(***************************************************************************)
CodeAddresses ==
    { Ipv4Addr(<<69, 22, 4, 0>>), Ipv6Addr([i \in 1 .. 16 |-> IF i = 16 THEN 1 ELSE 0]) }

CodePortStarts == {0, 43434, U16 - 1}

CodeLaneCounts == {1, 69, U16 - 1}

CodeTimestamps == {U64(1790000000), <<U16 - 1, U16 - 1, U16 - 1, U16 - 1>>}

\* The 64 characters of the URL-safe alphabet, by index.
Base64Chars == 0 .. 63

\* string and bytes hold what was serialized, after any replacement or
\* truncation; replaced is the position of a replaced character, truncated
\* the length a truncation left.
CodeCall(code) ==
    [ code |-> code,
      string |-> None,
      bytes |-> None,
      replaced |-> None,
      truncated |-> None,
      deserialized |-> None ]

InitCode ==
    /\ puncher = NewPeer(FALSE, NumLanes)
    /\ InitPeers
    /\ \E address \in CodeAddresses : \E port_start \in CodePortStarts :
        \E lane_count \in CodeLaneCounts : \E timestamp \in CodeTimestamps :
            call = CodeCall(ConnectionCode(address, port_start, lane_count, timestamp))

Untouched == call.replaced = None /\ call.truncated = None /\ call.deserialized = None

SerializeToString ==
    /\ call.string = None /\ call.bytes = None
    /\ call' = [call EXCEPT !.string = Some(ConnectionCode_serialize_to_string(call.code))]
    /\ UNCHANGED <<puncher, peer, net, wire, host>>

SerializeToBytes ==
    /\ call.string = None /\ call.bytes = None
    /\ LET buf == [i \in 1 .. CONNECTION_CODE_MAX_LENGTH_BYTES |-> 0]
           out == ConnectionCode_serialize_to_bytes(call.code, buf)
       IN  call' = [call EXCEPT !.bytes = Some(SubSeq(out.buf, 1, out.index))]
    /\ UNCHANGED <<puncher, peer, net, wire, host>>

\* One character of the string is replaced by a different character.
Replace ==
    /\ call.string # None /\ Untouched
    /\ \E pos \in 1 .. Len(Unwrap(call.string)) :
        \E ch \in Base64Chars \ {Unwrap(call.string)[pos]} :
            call' = [call EXCEPT
                        !.string = Some([Unwrap(call.string) EXCEPT ![pos] = ch]),
                        !.replaced = Some(pos)]
    /\ UNCHANGED <<puncher, peer, net, wire, host>>

\* The string is cut to a strict prefix.
Truncate ==
    /\ call.string # None /\ Untouched
    /\ \E n \in 0 .. (Len(Unwrap(call.string)) - 1) :
        call' = [call EXCEPT
                    !.string = Some(SubSeq(Unwrap(call.string), 1, n)),
                    !.truncated = Some(n)]
    /\ UNCHANGED <<puncher, peer, net, wire, host>>

\* The serialized bytes are cut to a strict prefix.
TruncateBytes ==
    /\ call.bytes # None /\ Untouched
    /\ \E n \in 0 .. (Len(Unwrap(call.bytes)) - 1) :
        call' = [call EXCEPT
                    !.bytes = Some(SubSeq(Unwrap(call.bytes), 1, n)),
                    !.truncated = Some(n)]
    /\ UNCHANGED <<puncher, peer, net, wire, host>>

DeserializeFromStr ==
    /\ call.string # None /\ call.deserialized = None
    /\ call' = [call EXCEPT
                  !.deserialized = Some(ConnectionCode_deserialize_from_str(Unwrap(call.string)))]
    /\ UNCHANGED <<puncher, peer, net, wire, host>>

DeserializeFromBytes ==
    /\ call.bytes # None /\ call.deserialized = None
    /\ call' = [call EXCEPT
                  !.deserialized = Some(ConnectionCode_deserialize_from_bytes(Unwrap(call.bytes)))]
    /\ UNCHANGED <<puncher, peer, net, wire, host>>

NextCode ==
    \/ SerializeToString
    \/ SerializeToBytes
    \/ Replace
    \/ Truncate
    \/ TruncateBytes
    \/ DeserializeFromStr
    \/ DeserializeFromBytes

SpecCode == InitCode /\ [][NextCode]_vars

(***************************************************************************)
(* SpecHost: one host running punch (connect.rs) and the loop of           *)
(* punch_connection. It has bound a number of sockets on consecutive       *)
(* ports and has read the peer's connection code; the engine is built      *)
(* with the smaller of the two lane counts, the loop sends from and        *)
(* receives on the sockets it was given. host.port is the local port of    *)
(* the last received_from or send_failed call. Anybody may send a datagram *)
(* to a bound socket, and any socket may report an error.                  *)
(***************************************************************************)
HostSetup(is_server, sockets, remote_lane_count) ==
    [ is_server |-> is_server,
      sockets |-> sockets,
      port_start |-> MyPortStart(is_server),
      remote_lane_count |-> remote_lane_count,
      phase |-> "send",
      port |-> None ]

\* connect.rs punch: lane_count = min of the two codes' lane counts, then
\* punch_connection builds the engine on the port of sockets[0].
HostPuncher(h) ==
    Puncher_new(h.is_server, h.port_start, RemotePortStart(h.is_server),
                Min(h.sockets, h.remote_lane_count))

InitHost ==
    /\ \E is_server \in BOOLEAN : \E sockets \in 1 .. MaxSockets :
        \E remote_lane_count \in 1 .. MaxSockets :
            /\ host = HostSetup(is_server, sockets, remote_lane_count)
            /\ puncher = HostPuncher(host)
    /\ peer = [r \in Roles |-> NewPeer(r = "server", NumLanes)]
    /\ net = {}
    /\ wire = [r \in Roles |-> <<>>]
    /\ call = NoCall

\* The match on poll() that ends an iteration of the loop.
HostAfterPoll(e) ==
    LET action == poll(e, FALSE)[1] IN
    IF action = "Wait" THEN "send"
    ELSE IF action \in {"Connect", "Listen"} THEN "done"
    ELSE "failed"

\* while let Some(send_info) = puncher.send_to(..): the socket's send_to
\* succeeds, or fails and the loop calls send_failed(send_info.from_port).
HostSendTo ==
    /\ host.phase = "send" /\ ~puncher.panicked
    /\ LET out == send_to(puncher) IN
        IF IsSome(out.info)
        THEN \/ /\ puncher' = out.engine
                /\ host' = host
             \/ /\ puncher' = send_failed(out.engine, Unwrap(out.info).from_port)
                /\ host' = [host EXCEPT !.port = Some(Unwrap(out.info).from_port)]
        ELSE /\ puncher' = out.engine
             /\ host' = [host EXCEPT !.phase = "wait"]
    /\ UNCHANGED <<peer, net, call, wire>>

\* select! { recv_from_any(&sockets, ..) => puncher.received_from(result,
\* port_start + index) }, then poll(): index ranges over the sockets.
HostReceivedFrom ==
    /\ host.phase = "wait" /\ ~puncher.panicked
    /\ \E index \in 0 .. (host.sockets - 1) : \E r \in RecvResults(puncher) :
        LET e == received_from(puncher, r, host.port_start + index).engine IN
        /\ puncher' = e
        /\ host' = [host EXCEPT !.port = Some(host.port_start + index),
                                !.phase = IF e.panicked THEN "wait" ELSE HostAfterPoll(e)]
    /\ UNCHANGED <<peer, net, call, wire>>

\* select! { sleep_until_if_some(next_tick_instant()) => puncher.tick() },
\* then poll()
HostTick ==
    /\ host.phase = "wait" /\ ~puncher.panicked
    /\ Puncher_next_tick_instant(puncher) # None
    /\ puncher.next_tick_instant <= MaxTicks * TickPeriod
    /\ LET e == tick(puncher) IN
        /\ puncher' = e
        /\ host' = [host EXCEPT !.phase = HostAfterPoll(e)]
    /\ UNCHANGED <<peer, net, call, wire>>

NextHost == HostSendTo \/ HostReceivedFrom \/ HostTick

SpecHost == InitHost /\ [][NextHost]_vars

(***************************************************************************)
(* juan/src/puncher/socket_binder.rs: bind_sockets. A socket is its port.  *)
(* The call's state is the vector of sockets, the going_up flag, the       *)
(* number of iterations of the outer loop begun, and where control is:     *)
(* "outer" at the head of the outer loop, "while" at the head of the inner *)
(* loop, "done" once the function has returned. up_failed tells whether a  *)
(* bind on the next higher port failed in the current attempt; gave_up     *)
(* holds, once an attempt has been abandoned, whether that happened after  *)
(* an upward failure and whether the attempt had turned downward.          *)
(***************************************************************************)
U16_MAX == U16 - 1

BindCall(bind_port, lane_count, unavailable) ==
    [ bind_port |-> bind_port,
      lane_count |-> lane_count,
      unavailable |-> unavailable,
      sockets |-> <<>>,
      going_up |-> TRUE,
      attempts |-> 0,
      pc |-> "outer",
      up_failed |-> FALSE,
      gave_up |-> None,
      result |-> None ]

\* std::net::UdpSocket::bind on a specific port: it fails when another
\* process holds the port.
bind_succeeds(b, port) == port \notin b.unavailable

\* return of the function
bind_return(b, result) == [b EXCEPT !.pc = "done", !.result = Some(result)]

\* The record of an abandoned attempt.
GaveUp(b) == Some([up_failed |-> b.up_failed, went_down |-> ~b.going_up])

\* sockets.clear(); continue 'outer, without the clear
bind_retry_keep(b) ==
    [b EXCEPT !.pc = "outer", !.gave_up = GaveUp(b)]

\* sockets.clear(); continue 'outer
bind_retry(b) ==
    [b EXCEPT !.sockets = <<>>, !.pc = "outer", !.gave_up = GaveUp(b)]

\* The head of the outer loop: after three iterations the function returns
\* the error below the loop; otherwise it binds the first socket, and bound
\* is the port it got (the port asked for or the one the OS chose), or None
\* when the bind failed, which the function returns at once.
bind_first(b, bound) ==
    IF b.attempts = 3
    THEN bind_return(b, Err("AddrNotAvailable"))
    ELSE IF ~IsSome(bound)
    THEN bind_return([b EXCEPT !.attempts = @ + 1], Err("bind"))
    ELSE [b EXCEPT !.attempts = @ + 1,
                   !.sockets = Append(b.sockets, Unwrap(bound)),
                   !.going_up = TRUE,
                   !.up_failed = FALSE,
                   !.pc = "while"]

\* What follows the bind of next_address in the inner loop.
bind_result(b, port) ==
    IF bind_succeeds(b, port)
    THEN IF b.going_up
         THEN [b EXCEPT !.sockets = Append(@, port)]
         ELSE [b EXCEPT !.sockets = <<port>> \o @]
    ELSE IF b.bind_port = 0
    THEN bind_retry([b EXCEPT !.up_failed = @ \/ b.going_up])
    ELSE IF b.going_up
    THEN [b EXCEPT !.going_up = FALSE, !.up_failed = TRUE]
    ELSE bind_return([b EXCEPT !.gave_up = GaveUp(b)], Err("AddrNotAvailable"))

\* One iteration of the inner loop.
bind_next(b) ==
    IF b.going_up
    THEN LET port == b.sockets[Len(b.sockets)] IN
         IF port = U16_MAX
         THEN [b EXCEPT !.going_up = FALSE]
         ELSE bind_result(b, port + 1)
    ELSE LET port == b.sockets[1] IN
         IF port \in {0, 1}
         THEN bind_retry(b)
         ELSE bind_result(b, port - 1)

(***************************************************************************)
(* SpecBind: one call of bind_sockets. The initial state draws the port    *)
(* asked for (0 for a port of the OS's choice), the lane count and the set *)
(* of ports other processes hold.                                          *)
(***************************************************************************)
PortWindow == {1, 2, 3} \cup (1000 .. 1003) \cup ((U16_MAX - 2) .. U16_MAX)

BindPorts == {0, 2, 1001, U16_MAX - 1}

\* The ports the OS may hand out for port 0.
EphemeralPorts == {1, 1001, 1002, U16_MAX}

InitBind ==
    /\ puncher = NewPeer(FALSE, NumLanes)
    /\ InitPeers
    /\ \E bind_port \in BindPorts : \E lane_count \in 1 .. MaxBindLanes :
        \E unavailable \in {u \in SUBSET PortWindow : Cardinality(u) <= MaxUnavailable} :
            call = BindCall(bind_port, lane_count, unavailable)

\* 'outer: for _ in 0..3 { bind(bind_address)?; sockets.push(first_socket); .. }
BindFirst ==
    /\ call.pc = "outer"
    /\ \/ /\ call.bind_port # 0
          /\ call' = bind_first(call, IF bind_succeeds(call, call.bind_port)
                                      THEN Some(call.bind_port) ELSE None)
       \/ /\ call.bind_port = 0
          /\ \E first \in EphemeralPorts \ call.unavailable :
                call' = bind_first(call, Some(first))
    /\ UNCHANGED <<puncher, peer, net, wire, host>>

\* while sockets.len() < lane_count { .. }
BindNext ==
    /\ call.pc = "while"
    /\ Len(call.sockets) < call.lane_count
    /\ call' = bind_next(call)
    /\ UNCHANGED <<puncher, peer, net, wire, host>>

\* return Ok(sockets)
BindReturn ==
    /\ call.pc = "while"
    /\ Len(call.sockets) >= call.lane_count
    /\ call' = bind_return(call, Ok(call.sockets))
    /\ UNCHANGED <<puncher, peer, net, wire, host>>

NextBind == BindFirst \/ BindNext \/ BindReturn

SpecBind == InitBind /\ [][NextBind]_vars

(***************************************************************************)
(* inlined::TinyVec and inlined::CompactVec (SpecVec).                     *)
(*                                                                         *)
(* A TinyVec<N, T> is `inner: [MaybeUninit<T>; N]` and `len: u8`.  A slot  *)
(* of inner is MaybeUninit_uninit or MaybeUninit_new(x).  Reading a slot   *)
(* with assume_init() gives x when the slot was written, and is undefined  *)
(* behaviour when it was not: the value read is then any element of T, so  *)
(* every operation that may read such a slot takes the values read         *)
(* (garbage) as an argument and the action chooses them.  The element type *)
(* of the model has no destructor.                                         *)
(***************************************************************************)
VecN == 2
MaxVecLen == 3
VecElems == {1, 2}
U8_MAX == 255

MaybeUninit_uninit == <<>>
MaybeUninit_new(x) == <<x>>
assume_init(slot, garbage) == IF slot = MaybeUninit_uninit THEN garbage ELSE slot[1]

TinyVec_new == [inner |-> [i \in 1 .. VecN |-> MaybeUninit_uninit], len |-> 0]
TinyVec_len(self) == self.len
TinyVec_capacity(self) == IF VecN > U8_MAX THEN U8_MAX ELSE VecN
TinyVec_as_slice(self) == [i \in 1 .. self.len |-> self.inner[i][1]]

\* Every operation gives the vector afterwards (self), what it returns (ret)
\* and whether it panicked.
Returns(self, ret) == [self |-> self, ret |-> ret, panic |-> FALSE]
Panics(self) == [self |-> self, ret |-> None, panic |-> TRUE]

TinyVec_push(self, element) ==
    IF self.len = TinyVec_capacity(self)
    THEN Returns(self, Some(element))
    ELSE Returns([inner |-> [self.inner EXCEPT ![self.len + 1] = MaybeUninit_new(element)],
                   len |-> self.len + 1], None)

\* std::ptr::copy(ptr, ptr.add(1), len - index), then the write at index.
TinyVec_insert(self, index, element) ==
    IF index > self.len THEN Panics(self)
    ELSE IF self.len = TinyVec_capacity(self) THEN Returns(self, Some(element))
    ELSE Returns([inner |-> [i \in 1 .. VecN |->
                                IF i = index + 1 THEN MaybeUninit_new(element)
                                ELSE IF i > index + 1 /\ i <= self.len + 1 THEN self.inner[i - 1]
                                ELSE self.inner[i]],
                   len |-> self.len + 1], None)

TinyVec_pop(self) ==
    IF self.len = 0 THEN Returns(self, None)
    ELSE Returns([inner |-> [self.inner EXCEPT ![self.len] = MaybeUninit_uninit],
                   len |-> self.len - 1], Some(self.inner[self.len][1]))

\* mem::replace(inner[index], uninit), len -= 1, then
\* std::ptr::copy(ptr.add(1), ptr, len - index): the last slot keeps its bytes.
TinyVec_remove(self, index) ==
    IF index >= self.len THEN Panics(self)
    ELSE Returns([inner |-> [i \in 1 .. VecN |->
                                IF i >= index + 1 /\ i < self.len THEN self.inner[i + 1]
                                ELSE IF i = index + 1 THEN MaybeUninit_uninit
                                ELSE self.inner[i]],
                   len |-> self.len - 1], self.inner[index + 1][1])

\* mem::replace(inner[index], uninit), len -= 1, then, unless index was the
\* last, inner[index] = transmute_copy(inner[len]).
TinyVec_swap_remove(self, index) ==
    IF index >= self.len THEN Panics(self)
    ELSE Returns([inner |-> [self.inner EXCEPT ![index + 1] =
                                IF self.len - 1 # index THEN self.inner[self.len]
                                ELSE MaybeUninit_uninit],
                   len |-> self.len - 1], self.inner[index + 1][1])

\* assume_init_drop() on each element leaves the bytes of the slot in place.
TinyVec_clear(self) == Returns([self EXCEPT !.len = 0], None)

TinyVec_truncate(self, new_len) ==
    IF new_len < self.len THEN Returns([self EXCEPT !.len = new_len], None)
    ELSE Returns(self, None)

TinyVec_inner_buffer_mut(self) == self.inner

\* Vec<T>, the reference the CompactVec is compared with.
Vec_insert(vec, index, element) ==
    IF index > Len(vec) THEN Panics(vec)
    ELSE Returns(SubSeq(vec, 1, index) \o <<element>> \o SubSeq(vec, index + 1, Len(vec)), None)

Vec_pop(vec) ==
    IF vec = <<>> THEN Returns(vec, None)
    ELSE Returns(SubSeq(vec, 1, Len(vec) - 1), Some(vec[Len(vec)]))

Vec_remove(vec, index) ==
    IF index >= Len(vec) THEN Panics(vec)
    ELSE Returns(SubSeq(vec, 1, index) \o SubSeq(vec, index + 2, Len(vec)), vec[index + 1])

Vec_swap_remove(vec, index) ==
    IF index >= Len(vec) THEN Panics(vec)
    ELSE Returns(SubSeq([vec EXCEPT ![index + 1] = vec[Len(vec)]], 1, Len(vec) - 1),
                  vec[index + 1])

Vec_truncate(vec, new_len) == IF new_len < Len(vec) THEN SubSeq(vec, 1, new_len) ELSE vec

\* enum CompactVec { Inlined(TinyVec<N, T>), Spilled(Vec<T>) }
Inlined(tiny_vec) == [kind |-> "Inlined", tiny_vec |-> tiny_vec, vec |-> <<>>]
Spilled(vec) == [kind |-> "Spilled", tiny_vec |-> TinyVec_new, vec |-> vec]

CompactVec_new == Inlined(TinyVec_new)
CompactVec_is_spilled(self) == self.kind = "Spilled"
CompactVec_len(self) == IF self.kind = "Inlined" THEN TinyVec_len(self.tiny_vec) ELSE Len(self.vec)
CompactVec_as_slice(self) == IF self.kind = "Inlined" THEN TinyVec_as_slice(self.tiny_vec) ELSE self.vec

\* for i in 0..buf.len() { vec.push(mem::replace(buf[i], uninit).assume_init()) }
\* with buf = tiny_vec.inner_buffer_mut(), the whole array of N slots;
\* garbage[i] is what assume_init() gives for slot i when it was never written.
CompactVec_spill_with_additional_capacity(self, additional_length, garbage) ==
    IF self.kind = "Spilled" THEN self
    ELSE LET buf == TinyVec_inner_buffer_mut(self.tiny_vec)
         IN Spilled([i \in 1 .. Len(buf) |-> assume_init(buf[i], garbage[i])])

CompactVec_spill(self, garbage) == CompactVec_spill_with_additional_capacity(self, 0, garbage)

CompactVec_push(self, element, garbage) ==
    IF self.kind = "Inlined"
    THEN LET pushed == TinyVec_push(self.tiny_vec, element)
         IN IF IsSome(pushed.ret)
            THEN Returns(Spilled(Append(
                     CompactVec_spill_with_additional_capacity(self, 1, garbage).vec,
                     Unwrap(pushed.ret))), None)
            ELSE Returns(Inlined(pushed.self), None)
    ELSE Returns(Spilled(Append(self.vec, element)), None)

CompactVec_insert(self, index, element, garbage) ==
    IF self.kind = "Inlined"
    THEN IF index > TinyVec_len(self.tiny_vec) THEN Panics(self)
         ELSE LET inserted == TinyVec_insert(self.tiny_vec, index, element)
              IN IF IsSome(inserted.ret)
                 THEN LET spilled == Vec_insert(
                              CompactVec_spill_with_additional_capacity(self, 1, garbage).vec,
                              index, Unwrap(inserted.ret))
                      IN [spilled EXCEPT !.self = Spilled(spilled.self)]
                 ELSE Returns(Inlined(inserted.self), None)
    ELSE LET inserted == Vec_insert(self.vec, index, element)
         IN [inserted EXCEPT !.self = Spilled(inserted.self)]

CompactVec_pop(self) ==
    IF self.kind = "Inlined"
    THEN LET popped == TinyVec_pop(self.tiny_vec) IN [popped EXCEPT !.self = Inlined(popped.self)]
    ELSE LET popped == Vec_pop(self.vec) IN [popped EXCEPT !.self = Spilled(popped.self)]

CompactVec_remove(self, index) ==
    IF self.kind = "Inlined"
    THEN IF index >= TinyVec_len(self.tiny_vec) THEN Panics(self)
         ELSE LET removed == TinyVec_remove(self.tiny_vec, index)
              IN [removed EXCEPT !.self = Inlined(removed.self)]
    ELSE LET removed == Vec_remove(self.vec, index)
         IN [removed EXCEPT !.self = Spilled(removed.self)]

CompactVec_swap_remove(self, index) ==
    IF self.kind = "Inlined"
    THEN IF index >= TinyVec_len(self.tiny_vec) THEN Panics(self)
         ELSE LET removed == TinyVec_swap_remove(self.tiny_vec, index)
              IN [removed EXCEPT !.self = Inlined(removed.self)]
    ELSE LET removed == Vec_swap_remove(self.vec, index)
         IN [removed EXCEPT !.self = Spilled(removed.self)]

CompactVec_clear(self) ==
    IF self.kind = "Inlined" THEN Inlined(TinyVec_clear(self.tiny_vec).self) ELSE Spilled(<<>>)

CompactVec_truncate(self, new_len) ==
    IF self.kind = "Inlined"
    THEN IF new_len <= U8_MAX THEN Inlined(TinyVec_truncate(self.tiny_vec, new_len).self) ELSE self
    ELSE Spilled(Vec_truncate(self.vec, new_len))

\* One CompactVec<N, T> and a Vec<T> that receives the same operations.
\* must_spill records that an insertion found N elements or that spill was
\* called; panicked, that the CompactVec panicked where the Vec did
\* (reference_panicked).
VecCall(vec, reference, must_spill, panicked, reference_panicked) == [vec |-> vec, reference |-> reference, must_spill |-> must_spill, panicked |-> panicked, reference_panicked |-> reference_panicked, last |-> "new"]

Garbage == [1 .. VecN -> VecElems]
VecIndexes == 0 .. MaxVecLen
VecRunning == ~call.panicked /\ ~call.reference_panicked
VecRoom == CompactVec_len(call.vec) < MaxVecLen /\ Len(call.reference) < MaxVecLen
VecFull(self) == self.kind = "Inlined" /\ TinyVec_len(self.tiny_vec) = TinyVec_capacity(self.tiny_vec)
VecStep(last, after, reference, spills) == [vec |-> after.self, reference |-> reference.self, must_spill |-> call.must_spill \/ spills, panicked |-> after.panic, reference_panicked |-> reference.panic, last |-> last]

InitVec ==
    /\ puncher = NewPeer(FALSE, NumLanes)
    /\ InitPeers
    /\ call = VecCall(CompactVec_new, <<>>, FALSE, FALSE, FALSE)

VecPush ==
    /\ VecRunning /\ VecRoom
    /\ \E element \in VecElems : \E garbage \in Garbage :
        call' = VecStep("push", CompactVec_push(call.vec, element, garbage),
                        Returns(Append(call.reference, element), None), VecFull(call.vec))
    /\ UNCHANGED <<puncher, peer, net, wire, host>>

VecInsert ==
    /\ VecRunning /\ VecRoom
    /\ \E index \in VecIndexes : \E element \in VecElems : \E garbage \in Garbage :
        call' = VecStep("insert", CompactVec_insert(call.vec, index, element, garbage),
                        Vec_insert(call.reference, index, element),
                        VecFull(call.vec) /\ index <= CompactVec_len(call.vec))
    /\ UNCHANGED <<puncher, peer, net, wire, host>>

VecPop ==
    /\ VecRunning
    /\ call' = VecStep("pop", CompactVec_pop(call.vec), Vec_pop(call.reference), FALSE)
    /\ UNCHANGED <<puncher, peer, net, wire, host>>

VecRemove ==
    /\ VecRunning
    /\ \E index \in VecIndexes :
        call' = VecStep("remove", CompactVec_remove(call.vec, index),
                        Vec_remove(call.reference, index), FALSE)
    /\ UNCHANGED <<puncher, peer, net, wire, host>>

VecSwapRemove ==
    /\ VecRunning
    /\ \E index \in VecIndexes :
        call' = VecStep("swap_remove", CompactVec_swap_remove(call.vec, index),
                        Vec_swap_remove(call.reference, index), FALSE)
    /\ UNCHANGED <<puncher, peer, net, wire, host>>

VecTruncate ==
    /\ VecRunning
    /\ \E new_len \in VecIndexes :
        call' = VecStep("truncate", Returns(CompactVec_truncate(call.vec, new_len), None),
                        Returns(Vec_truncate(call.reference, new_len), None), FALSE)
    /\ UNCHANGED <<puncher, peer, net, wire, host>>

VecClear ==
    /\ VecRunning
    /\ call' = VecStep("clear", Returns(CompactVec_clear(call.vec), None),
                       Returns(<<>>, None), FALSE)
    /\ UNCHANGED <<puncher, peer, net, wire, host>>

VecSpill ==
    /\ VecRunning
    /\ \E garbage \in Garbage :
        call' = VecStep("spill", Returns(CompactVec_spill(call.vec, garbage), None),
                        Returns(call.reference, None), TRUE)
    /\ UNCHANGED <<puncher, peer, net, wire, host>>

VecSpillWithAdditionalCapacity ==
    /\ VecRunning
    /\ \E additional_length \in VecIndexes : \E garbage \in Garbage :
        call' = VecStep("spill_with_additional_capacity",
                        Returns(CompactVec_spill_with_additional_capacity(
                                     call.vec, additional_length, garbage), None),
                        Returns(call.reference, None), TRUE)
    /\ UNCHANGED <<puncher, peer, net, wire, host>>

NextVec == VecPush \/ VecInsert \/ VecPop \/ VecRemove \/ VecSwapRemove \/ VecTruncate \/ VecClear \/ VecSpill \/ VecSpillWithAdditionalCapacity

SpecVec == InitVec /\ [][NextVec]_vars

(***************************************************************************)
(* Properties of one engine under arbitrary host calls (Spec).             *)
(***************************************************************************)
LaneKind(e, i) == e.lanes[i].state.kind

SelectedLanes(e) == {i \in LaneIndexes(e) : LaneKind(e, i) = "Selected"}
ActiveLanes(e) == {i \in LaneIndexes(e) : is_active(e.lanes[i].state)}

\* The engine after received_from hands datagram or error r to lane i.
AfterReceive(e, i, r) == received_from(e, r, e.my_port_start + i).engine

\* r is a datagram that gets as far as the lane's state machine.
ReachesStateMachine(e, r) ==
    /\ r.ok /\ r.ip_ok
    /\ r.port >= e.remote_port_start /\ r.port < e.remote_port_start + e.lane_count
    /\ r.parse \in {"Connecting", "Establishing", "Selected"}

\* C1: at most one lane is Selected, and once selected_lane_index is Some(k)
\* every lane other than k is Closed or Blocked.
C1_AtMostOneSelected ==
    /\ Cardinality(SelectedLanes(puncher)) <= 1
    /\ IsSome(puncher.selected_lane_index) =>
        \A i \in LaneIndexes(puncher) :
            i # Unwrap(puncher.selected_lane_index) => LaneKind(puncher, i) \in {"Closed", "Blocked"}

C1_Witness ==
    /\ IsSome(puncher.selected_lane_index)
    /\ LaneKind(puncher, Unwrap(puncher.selected_lane_index)) = "Selected"
    /\ \E i \in LaneIndexes(puncher) : LaneKind(puncher, i) = "Closed"

\* C4: open_lanes_count is the number of Connecting, Establishing and Selected
\* lanes after every call (a decrement below zero would leave it at 65535).
C4_OpenLanesCount ==
    puncher.open_lanes_count = Cardinality(ActiveLanes(puncher))

C4_Witness ==
    /\ IsSome(puncher.selected_lane_index)
    /\ \E i \in LaneIndexes(puncher) : LaneKind(puncher, i) = "Closed"
    /\ LaneKind(puncher, Unwrap(puncher.selected_lane_index)) = "Blocked"
    /\ puncher.open_lanes_count = 0

\* C5: a lane that is Blocked or Closed keeps its state, and a Blocked lane its
\* reason, through every call.
C5_MonotonicTerminality ==
    [][\A i \in LaneIndexes(puncher) :
        LaneKind(puncher, i) \in {"Blocked", "Closed"} =>
            puncher'.lanes[i].state = puncher.lanes[i].state]_vars

C5_Witness ==
    /\ \E i \in LaneIndexes(puncher) : LaneKind(puncher, i) = "Closed"
    /\ \E i \in LaneIndexes(puncher) :
        LaneKind(puncher, i) = "Blocked" /\ puncher.lanes[i].state.reason = "BlockedByRemote"
    /\ puncher.next_tick_instant > TickPeriod

\* C6: a server engine moves a lane to Selected only by receiving a Selected
\* status on that lane while the lane is Establishing with sent = TRUE, never
\* on a Connecting or Establishing status, and that step leaves no other lane
\* active.
C6_ServerSelectsOnlyOnSelected ==
    /\ [](puncher.is_server =>
            \A i \in LaneIndexes(puncher), r \in RecvResults(puncher) :
                (LaneKind(puncher, i) # "Selected"
                    /\ LaneKind(AfterReceive(puncher, i, r), i) = "Selected")
                => (ReachesStateMachine(puncher, r) /\ r.parse = "Selected"))
    /\ [][puncher.is_server =>
            \A i \in LaneIndexes(puncher) :
                (LaneKind(puncher, i) # "Selected" /\ LaneKind(puncher', i) = "Selected")
                => /\ LaneKind(puncher, i) = "Establishing"
                   /\ puncher.lanes[i].state.sent
                   /\ puncher' = AfterReceive(puncher, i, Datagram(puncher, "Selected"))
                   /\ puncher'.selected_lane_index = Some(i)
                   /\ \A j \in LaneIndexes(puncher) :
                        j # i => ~is_active(puncher'.lanes[j].state)]_vars

C6_Witness ==
    /\ puncher.is_server
    /\ IsSome(puncher.selected_lane_index)
    /\ LaneKind(puncher, Unwrap(puncher.selected_lane_index)) = "Selected"
    /\ \E i \in LaneIndexes(puncher) : LaneKind(puncher, i) = "Closed"

\* C7: whatever is received, an Establishing lane becomes Selected only on an
\* Establishing or Selected status, on a Selected status only with sent = TRUE,
\* and never on a Connecting status.
C7_SentFlagSafety ==
    \A i \in LaneIndexes(puncher), r \in RecvResults(puncher) :
        (LaneKind(puncher, i) = "Establishing"
            /\ LaneKind(AfterReceive(puncher, i, r), i) = "Selected")
        => /\ ReachesStateMachine(puncher, r)
           /\ r.parse \in {"Establishing", "Selected"}
           /\ r.parse = "Selected" => puncher.lanes[i].state.sent

\* An Establishing lane that has sent, on a server, about to be ratified by a
\* Selected status; and one that has not sent, about to be blocked by it.
C7_Witness ==
    /\ puncher.is_server
    /\ \E i \in LaneIndexes(puncher) :
        /\ LaneKind(puncher, i) = "Establishing" /\ puncher.lanes[i].state.sent
        /\ LaneKind(AfterReceive(puncher, i, Datagram(puncher, "Selected")), i) = "Selected"
    /\ \E i \in LaneIndexes(puncher) :
        /\ LaneKind(puncher, i) = "Establishing" /\ ~puncher.lanes[i].state.sent
        /\ LaneKind(AfterReceive(puncher, i, Datagram(puncher, "Selected")), i) = "Blocked"

(***************************************************************************)
(* The transition tables of process_packet (SpecTable).                    *)
(***************************************************************************)
Returned(kind) == call.self.kind = kind /\ IsSome(call.result)
Result == Unwrap(call.result)
CallCanSelect == ~call.is_selector /\ ~call.has_selected

\* C8 as stated: from Establishing, Connecting or Establishing with can_select
\* yields Selected, otherwise Remain; Selected with sent = FALSE or can_select
\* blocks with UnexpectedTransition, otherwise yields Selected; Blocked blocks
\* with BlockedByRemote.
C8_EstablishingTable_AsStated ==
    Returned("Establishing") =>
        Result =
            CASE call.received_lane_status \in {"Connecting", "Establishing"} /\ CallCanSelect
                    -> Ok("Selected")
              [] call.received_lane_status \in {"Connecting", "Establishing"} /\ ~CallCanSelect
                    -> Ok("Remain")
              [] call.received_lane_status = "Selected" /\ (~call.self.sent \/ CallCanSelect)
                    -> Err("UnexpectedTransition")
              [] call.received_lane_status = "Selected" /\ ~(~call.self.sent \/ CallCanSelect)
                    -> Ok("Selected")
              [] call.received_lane_status = "Blocked" -> Err("BlockedByRemote")

\* C8 amended: from Establishing, only an incoming Establishing with can_select
\* yields Selected; an incoming Connecting always yields Remain, as does
\* Establishing without can_select; the Selected and Blocked rows are as stated.
C8_EstablishingTable ==
    Returned("Establishing") =>
        Result =
            CASE call.received_lane_status = "Establishing" /\ CallCanSelect -> Ok("Selected")
              [] call.received_lane_status = "Establishing" /\ ~CallCanSelect -> Ok("Remain")
              [] call.received_lane_status = "Connecting" -> Ok("Remain")
              [] call.received_lane_status = "Selected" /\ (~call.self.sent \/ CallCanSelect)
                    -> Err("UnexpectedTransition")
              [] call.received_lane_status = "Selected" /\ ~(~call.self.sent \/ CallCanSelect)
                    -> Ok("Selected")
              [] call.received_lane_status = "Blocked" -> Err("BlockedByRemote")

C8_Witness ==
    /\ Returned("Establishing")
    /\ call.received_lane_status = "Connecting" /\ CallCanSelect
    /\ Result = Ok("Remain")

\* C9: from Connecting, Connecting yields Establishing; Establishing with
\* sent = FALSE blocks with UnexpectedTransition whatever can_select is;
\* Establishing with sent and can_select yields Selected, otherwise
\* Establishing; Selected blocks with UnexpectedTransition; Blocked blocks
\* with BlockedByRemote.
C9_ConnectingTable ==
    Returned("Connecting") =>
        Result =
            CASE call.received_lane_status = "Connecting" -> Ok("Establishing")
              [] call.received_lane_status = "Establishing" /\ ~call.self.sent
                    -> Err("UnexpectedTransition")
              [] call.received_lane_status = "Establishing" /\ call.self.sent /\ CallCanSelect
                    -> Ok("Selected")
              [] call.received_lane_status = "Establishing" /\ call.self.sent /\ ~CallCanSelect
                    -> Ok("Establishing")
              [] call.received_lane_status = "Selected" -> Err("UnexpectedTransition")
              [] call.received_lane_status = "Blocked" -> Err("BlockedByRemote")

C9_Witness ==
    /\ Returned("Connecting")
    /\ call.received_lane_status = "Establishing" /\ ~call.self.sent /\ CallCanSelect
    /\ Result = Err("UnexpectedTransition")

\* C10: from Selected, Connecting or Establishing yields Remain; Selected blocks
\* with UnexpectedTransition exactly when is_server and sent = FALSE and yields
\* Remain otherwise; Blocked blocks with BlockedByRemote; no result asks for
\* Establishing (and none exists for Connecting).
C10_SelectedTable ==
    Returned("Selected") =>
        /\ Result =
            CASE call.received_lane_status \in {"Connecting", "Establishing"} -> Ok("Remain")
              [] call.received_lane_status = "Selected" /\ call.is_selector /\ ~call.self.sent
                    -> Err("UnexpectedTransition")
              [] call.received_lane_status = "Selected" /\ ~(call.is_selector /\ ~call.self.sent)
                    -> Ok("Remain")
              [] call.received_lane_status = "Blocked" -> Err("BlockedByRemote")
        /\ Result.tag = "Ok" => Result.val = "Remain"

C10_Witness ==
    /\ Returned("Selected")
    /\ call.received_lane_status = "Selected" /\ ~call.is_selector /\ ~call.self.sent
    /\ Result = Ok("Remain")

IdealFinished ==
    \A p \in Roles :
        \/ host.phase[p] = "done"
        \/ host.phase[p] = "wait" /\ wire[p] = <<>> /\ host.ticks[p] = IdealCycles

\* C3: on the ideal path, once the tick cycles have run, the client's lane 0 is
\* Selected, the server's lane 0 is Selected too, the client's poll() is
\* Connect(40000, 50000) and the server's poll() is Listen(50000, 40000).
C3_IdealPath ==
    IdealFinished =>
        /\ peer["client"].selected_lane_index = Some(0)
        /\ LaneKind(peer["client"], 0) = "Selected"
        /\ peer["server"].selected_lane_index = Some(0)
        /\ LaneKind(peer["server"], 0) = "Selected"
        /\ poll(peer["client"], FALSE) = <<"Connect", Ports(ClientPortStart, ServerPortStart)>>
        /\ poll(peer["server"], FALSE) = <<"Listen", Ports(ServerPortStart, ClientPortStart)>>


(***************************************************************************)
(* C11: a lane's sent flag is true iff send_to has produced a packet from  *)
(* that lane since the lane entered its current state. Stated inductively: *)
(* every lane starts unsent; a step that moves a lane into Establishing or *)
(* Selected leaves it unsent; a flag that is set stays set while the lane  *)
(* keeps its state; and a flag becomes set in exactly the steps in which   *)
(* send_to produced a packet from that lane.                               *)
(***************************************************************************)
EmittedFrom(e, f, i) ==
    LET out == send_to(e) IN
        /\ IsSome(out.info)
        /\ f = out.engine
        /\ Unwrap(out.info).from_port = e.my_port_start + i

C11_SentIffEmitted ==
    /\ \A i \in LaneIndexes(puncher) : ~puncher.lanes[i].state.sent
    /\ [][\A i \in LaneIndexes(puncher) :
            LET a == puncher.lanes[i].state
                b == puncher'.lanes[i].state
            IN  /\ (b.kind # a.kind /\ b.kind \in {"Establishing", "Selected"}) => ~b.sent
                /\ (a.kind = b.kind /\ a.sent) => b.sent
                /\ (b.sent /\ ~(a.kind = b.kind /\ a.sent)) => EmittedFrom(puncher, puncher', i)
                /\ (EmittedFrom(puncher, puncher', i) /\ is_active(b)) => b.sent]_vars

C11_Witness ==
    \E i \in LaneIndexes(puncher) :
        /\ LaneKind(puncher, i) = "Establishing"
        /\ puncher.lanes[i].state.sent
        /\ ~puncher.lanes[i].needs_send


(***************************************************************************)
(* C12: retransmissions are idempotent. Handing the same valid datagram    *)
(* twice in a row to received_from on the same lane leaves the engine as   *)
(* handing it once does, for every role, lane state, sent flag and status. *)
(***************************************************************************)
C12_RetransmissionIdempotent ==
    \A i \in LaneIndexes(puncher) : \A st \in LaneStatus :
        LET d == Datagram(puncher, st)
            once == AfterReceive(puncher, i, d)
        IN  AfterReceive(once, i, d) = once


C14_PollPriority ==
    \A now \in Instants :
        poll_at(puncher, now) =
            IF puncher.selected_lane_index # None
            THEN LET k == Unwrap(puncher.selected_lane_index)
                     ports == [local |-> puncher.my_port_start + k,
                               remote |-> puncher.remote_port_start + k]
                 IN  <<IF puncher.is_server THEN "Listen" ELSE "Connect", ports>>
            ELSE IF puncher.open_lanes_count = 0 THEN <<"Failed">>
            ELSE IF now >= puncher.timeout_instant THEN <<"Timeout">>
            ELSE <<"Wait">>

\* Every lane is blocked and none was selected: Failed, also past the deadline.
C14_Witness ==
    /\ puncher.selected_lane_index = None
    /\ ActiveLanes(puncher) = {}
    /\ poll_at(puncher, puncher.timeout_instant + 1) = <<"Failed">>


(***************************************************************************)
(* C15: selection is irrevocable. Once selected_lane_index is Some(k) no   *)
(* step changes it, and once poll() has returned Connect(p) or Listen(p)   *)
(* every later poll() returns the same action with the same ports,         *)
(* whatever the clock reads then and whatever packets, errors, sends and   *)
(* ticks come in between.                                                  *)
(***************************************************************************)
C15_SelectionIrrevocable ==
    [][puncher.selected_lane_index # None =>
        /\ puncher'.selected_lane_index = puncher.selected_lane_index
        /\ \A now \in Instants : \A later \in Instants :
              later >= now => poll_at(puncher', later) = poll_at(puncher, now)]_vars

\* The selected lane was blocked after the selection, and the engine still
\* polls Connect or Listen for it past the deadline.
C15_Witness ==
    /\ puncher.selected_lane_index # None
    /\ LaneKind(puncher, Unwrap(puncher.selected_lane_index)) = "Blocked"
    /\ puncher.open_lanes_count = 0
    /\ poll_at(puncher, puncher.timeout_instant)[1] \in {"Connect", "Listen"}


(***************************************************************************)
(* C16: blocking is confined to its lane. When a received_from or          *)
(* send_failed call on lane i blocks that lane, every other lane keeps its *)
(* state, sent flag and needs_send, selected_lane_index is unchanged, and  *)
(* open_lanes_count decreases by exactly 1.                                *)
(***************************************************************************)
BlockConfined(e, f, i) ==
    /\ LaneKind(f, i) = "Blocked"
    /\ \A j \in LaneIndexes(e) \ {i} : f.lanes[j] = e.lanes[j]
    /\ f.selected_lane_index = e.selected_lane_index
    /\ f.open_lanes_count = e.open_lanes_count - 1

C16_BlockingConfined ==
    \A i \in ActiveLanes(puncher) :
        /\ \A r \in RecvResults(puncher) :
              LET out == received_from(puncher, r, puncher.my_port_start + i) IN
                  out.blocked # NoReason => BlockConfined(puncher, out.engine, i)
        /\ BlockConfined(puncher, send_failed(puncher, puncher.my_port_start + i), i)

\* One lane is blocked while another one is still Establishing, has sent and
\* has a send pending.
C16_Witness ==
    \E i \in LaneIndexes(puncher) : \E j \in LaneIndexes(puncher) :
        /\ LaneKind(puncher, i) = "Blocked"
        /\ puncher.lanes[i].state.reason = "SendError"
        /\ LaneKind(puncher, j) = "Establishing"
        /\ puncher.lanes[j].needs_send
        /\ puncher.open_lanes_count = puncher.lane_count - 1


(***************************************************************************)
(* C17: received_from on an active lane checks in a fixed order. A receive *)
(* error blocks with ReceiveError; otherwise a source that is not the      *)
(* remote's IP or lies outside the remote port range blocks with           *)
(* Interference, also when the bytes are malformed; otherwise a parse      *)
(* error blocks with BadPacket; otherwise status Blocked blocks with       *)
(* BlockedByRemote; only then is the lane's state machine consulted. One   *)
(* call records at most one reason.                                        *)
(***************************************************************************)
ForeignSource(e, r) ==
    \/ ~r.ip_ok
    \/ r.port < e.remote_port_start
    \/ r.port >= e.remote_port_start + e.lane_count

C17_CheckOrder ==
    \A i \in ActiveLanes(puncher) : \A r \in RecvResults(puncher) :
        LET out == received_from(puncher, r, puncher.my_port_start + i)
            lane == out.engine.lanes[i].state
            BlockedWith(reason) ==
                out.blocked = reason /\ lane.kind = "Blocked" /\ lane.reason = reason
        IN  IF ~r.ok THEN BlockedWith("ReceiveError")
            ELSE IF ForeignSource(puncher, r) THEN BlockedWith("Interference")
            ELSE IF r.parse \in PacketDataError THEN BlockedWith(BadPacket(r.parse))
            ELSE IF r.parse = "Blocked" THEN BlockedWith("BlockedByRemote")
            ELSE LET result == LaneState_process_packet(
                                    puncher.lanes[i].state, puncher.is_server,
                                    puncher.selected_lane_index # None, r.parse)
                 IN  IF result.tag = "Err"
                     THEN BlockedWith(result.val)
                     ELSE out.blocked = NoReason /\ out.transition = result.val
                            /\ lane.kind # "Blocked"

\* A lane blocked with Interference on a datagram whose bytes would not parse
\* either, next to a lane blocked with BadPacket.
C17_Witness ==
    \E i \in LaneIndexes(puncher) : \E j \in LaneIndexes(puncher) :
        /\ puncher.lanes[i].state.reason = "Interference"
        /\ puncher.lanes[j].state.reason = BadPacket("WrongPreamble")
        /\ \E r \in RecvResults(puncher) :
              ForeignSource(puncher, r) /\ r.parse = "WrongPreamble"


(***************************************************************************)
(* C18: received_from returns Some(application payload) exactly when the   *)
(* lane was active, the receive result was Ok, the source was the remote's *)
(* IP within the remote port range and the packet parsed, also when that   *)
(* same call blocks the lane with BlockedByRemote or UnexpectedTransition; *)
(* in every other case it returns None. After a Blocked-status packet has  *)
(* handed its payload over, every later packet on that lane returns None.  *)
(***************************************************************************)
C18_PayloadReturned ==
    \A i \in LaneIndexes(puncher) :
        /\ \A r \in RecvResults(puncher) :
              LET out == received_from(puncher, r, puncher.my_port_start + i) IN
                  out.ret = IF /\ is_active(puncher.lanes[i].state)
                               /\ r.ok
                               /\ ~ForeignSource(puncher, r)
                               /\ r.parse \in LaneStatus
                            THEN Payload
                            ELSE None
        /\ is_active(puncher.lanes[i].state) =>
              LET first == received_from(puncher, Datagram(puncher, "Blocked"),
                                         puncher.my_port_start + i)
              IN  /\ first.ret = Payload
                  /\ \A r \in RecvResults(first.engine) :
                        received_from(first.engine, r, puncher.my_port_start + i).ret = None

\* Two calls that returned the payload and blocked their lane: one on a
\* Blocked-status packet, one on a transition the state machine rejects.
C18_Witness ==
    \E i \in LaneIndexes(puncher) : \E j \in LaneIndexes(puncher) :
        /\ puncher.lanes[i].state.reason = "BlockedByRemote"
        /\ puncher.lanes[j].state.reason = "UnexpectedTransition"


(***************************************************************************)
(* C19: inactive lanes ignore input. received_from on a lane that is       *)
(* Blocked or Closed returns None and leaves the whole engine unchanged,   *)
(* whatever the input (errors, interference, malformed or well-formed      *)
(* packets); send_failed on such a lane changes nothing either.            *)
(***************************************************************************)
C19_InactiveLanesIgnoreInput ==
    \A i \in LaneIndexes(puncher) \ ActiveLanes(puncher) :
        /\ \A r \in RecvResults(puncher) :
              LET out == received_from(puncher, r, puncher.my_port_start + i) IN
                  out.engine = puncher /\ out.ret = None
        /\ send_failed(puncher, puncher.my_port_start + i) = puncher

\* A lane blocked by a send error and a Closed lane on a server whose next
\* tick has passed once: both kinds of inactive lane, with calls still coming.
C19_Witness ==
    \E i \in LaneIndexes(puncher) : \E j \in LaneIndexes(puncher) :
        /\ LaneKind(puncher, i) = "Blocked"
        /\ puncher.lanes[i].state.reason = "SendError"
        /\ LaneKind(puncher, j) = "Closed"
        /\ puncher.is_server
        /\ puncher.next_tick_instant > TickPeriod


(***************************************************************************)
(* C20: send_to() produces at most one packet, for the lowest-index lane   *)
(* whose needs_send is set: it clears that lane's needs_send, sets the     *)
(* lane's sent flag (a Blocked lane carries none), writes the lane's       *)
(* current status into the packet and returns from_port = my_port_start +  *)
(* i and to = remote_port_start + i, touching nothing else. It returns     *)
(* None, changing nothing, exactly when no lane has needs_send. A host     *)
(* loop calling send_to until None stops after as many packets as lanes    *)
(* had needs_send, at most lane_count.                                     *)
(***************************************************************************)
NeedingSend(e) == {i \in LaneIndexes(e) : e.lanes[i].needs_send}

\* The number of packets the loop `while let Some(..) = send_to(..)` sends.
RECURSIVE DrainLength(_)
DrainLength(e) ==
    LET out == send_to(e) IN
    IF out.info = None THEN 0 ELSE 1 + DrainLength(out.engine)

C20_SendTo ==
    LET out == send_to(puncher)
        need == NeedingSend(puncher)
    IN  /\ IF need = {}
           THEN out.info = None /\ out.engine = puncher
           ELSE \E i \in need :
                  /\ \A j \in need : i <= j
                  /\ out.info = Some([from_port |-> puncher.my_port_start + i,
                                       to_port |-> puncher.remote_port_start + i,
                                       lane_status |-> status(puncher.lanes[i].state)])
                  /\ out.engine =
                        [puncher EXCEPT
                            !.lanes[i].needs_send = FALSE,
                            !.lanes[i].state.sent = is_active(puncher.lanes[i].state)]
                  /\ NeedingSend(out.engine) = need \ {i}
        /\ DrainLength(puncher) = Cardinality(need)
        /\ DrainLength(puncher) <= puncher.lane_count

\* The lowest lane has sent and has nothing pending while a higher lane, in
\* another state, is still waiting for its turn.
C20_Witness ==
    /\ ~puncher.lanes[0].needs_send
    /\ puncher.lanes[0].state.sent
    /\ LaneKind(puncher, 0) = "Connecting"
    /\ \E j \in LaneIndexes(puncher) :
          puncher.lanes[j].needs_send /\ LaneKind(puncher, j) = "Establishing"


(***************************************************************************)
(* C21: tick() advances next_tick_instant by exactly one tick_period,      *)
(* changes no lane state and no sent flag, and sets needs_send: with a     *)
(* selected lane, only that lane needs sending and only when is_server;    *)
(* otherwise needs_send is true for every Connecting or Establishing lane, *)
(* equal to is_server for Selected lanes and false for Blocked and Closed  *)
(* lanes. Nothing else of the engine changes.                              *)
(***************************************************************************)
C21_Tick ==
    LET t == tick(puncher) IN
        /\ t.next_tick_instant = puncher.next_tick_instant + TickPeriod
        /\ \A i \in LaneIndexes(puncher) : t.lanes[i].state = puncher.lanes[i].state
        /\ \A i \in LaneIndexes(puncher) :
              t.lanes[i].needs_send =
                IF puncher.selected_lane_index # None
                THEN i = Unwrap(puncher.selected_lane_index) /\ puncher.is_server
                ELSE CASE LaneKind(puncher, i) \in {"Connecting", "Establishing"} -> TRUE
                       [] LaneKind(puncher, i) = "Selected" -> puncher.is_server
                       [] LaneKind(puncher, i) \in {"Blocked", "Closed"} -> FALSE
        /\ [t EXCEPT !.lanes = puncher.lanes, !.next_tick_instant = puncher.next_tick_instant]
              = puncher

\* A tick has run on a server with a selected lane: that lane alone has a
\* send pending, and it has sent before.
C21_Witness ==
    /\ puncher.next_tick_instant > TickPeriod
    /\ puncher.is_server
    /\ puncher.selected_lane_index # None
    /\ LET k == Unwrap(puncher.selected_lane_index) IN
          /\ LaneKind(puncher, k) = "Selected"
          /\ puncher.lanes[k].state.sent
          /\ NeedingSend(puncher) = {k}


(***************************************************************************)
(* C22: Blocked and Closed lanes never send. In every reachable state,     *)
(* send_to returns no packet for a lane that is Blocked or Closed at the   *)
(* time of the call, also after tick() has run with a lane selected.       *)
(***************************************************************************)
C22_InactiveLanesNeverSend ==
    LET out == send_to(puncher) IN
        /\ ~out.engine.panicked
        /\ out.info # None =>
              LaneKind(puncher, Unwrap(out.info).from_port - puncher.my_port_start)
                  \notin {"Blocked", "Closed"}


(***************************************************************************)
(* C23: per-lane errors are surfaced to the peer. After a lane is blocked  *)
(* locally, with ticks and send_to drains continuing, the engine emits     *)
(* packets on that lane whose status byte is Blocked. A blocked lane stays *)
(* blocked and tick() decides needs_send from the lane states alone, so    *)
(* the packets of any later tick are those of the next one: for every      *)
(* Blocked lane, a tick followed by a drain emits a Blocked-status packet  *)
(* from that lane.                                                         *)
(***************************************************************************)
\* The packets the loop `while let Some(..) = send_to(..)` sends.
RECURSIVE DrainPackets(_)
DrainPackets(e) ==
    LET out == send_to(e) IN
    IF out.info = None THEN {} ELSE Emitted(out) \cup DrainPackets(out.engine)

C23_BlockedSurfaced ==
    \A i \in LaneIndexes(puncher) :
        LaneKind(puncher, i) = "Blocked" =>
            [from_port |-> puncher.my_port_start + i,
             to_port |-> puncher.remote_port_start + i,
             lane_status |-> "Blocked"] \in DrainPackets(tick(puncher))


(***************************************************************************)
(* C24: once a client engine has selected a lane, every later send_to call *)
(* returns None, whatever ticks and packets follow: the client emits no    *)
(* packet after its transition to Selected. A server engine whose selected *)
(* lane is still Selected emits exactly one packet per tick, on that lane, *)
(* with status Selected.                                                   *)
(***************************************************************************)
C24_SendingAfterSelection ==
    puncher.selected_lane_index # None =>
        LET k == Unwrap(puncher.selected_lane_index) IN
            IF ~puncher.is_server
            THEN /\ send_to(puncher).info = None
                 /\ DrainPackets(tick(puncher)) = {}
            ELSE LaneKind(puncher, k) = "Selected" =>
                    /\ DrainLength(tick(puncher)) = 1
                    /\ DrainPackets(tick(puncher)) =
                            {[from_port |-> puncher.my_port_start + k,
                              to_port |-> puncher.remote_port_start + k,
                              lane_status |-> "Selected"]}

\* A client that selected a lane, has ticked since and never sent from the
\* lane in its Selected state.
C24_Witness ==
    /\ ~puncher.is_server
    /\ puncher.selected_lane_index # None
    /\ puncher.next_tick_instant > TickPeriod
    /\ LaneKind(puncher, Unwrap(puncher.selected_lane_index)) = "Selected"
    /\ ~puncher.lanes[Unwrap(puncher.selected_lane_index)].state.sent


(***************************************************************************)
(* C25: next_tick_instant() returns None exactly when the engine is the    *)
(* client with a lane selected, or open_lanes_count is 0; otherwise it     *)
(* returns min(next tick, timeout_instant) while no lane is selected and   *)
(* the next tick alone once a lane is selected. Reaching the deadline      *)
(* alone never makes it return None. The timeout is a parameter of         *)
(* Puncher::new that no operation reads or writes, so the engine built     *)
(* with another timeout and driven the same way is puncher with that       *)
(* timeout_instant: the property is stated for every such engine.          *)
(***************************************************************************)
WithTimeout(e, t) == [e EXCEPT !.timeout_instant = t]

C25_NextTickInstant ==
    \A t \in Instants :
        LET e == WithTimeout(puncher, t)
            ret == Puncher_next_tick_instant(e)
            client_selected == ~e.is_server /\ e.selected_lane_index # None
        IN  /\ ret = None <=> (client_selected \/ e.open_lanes_count = 0)
            /\ ret # None =>
                  IF e.selected_lane_index = None
                  THEN /\ Unwrap(ret) <= e.next_tick_instant
                       /\ Unwrap(ret) <= e.timeout_instant
                       /\ Unwrap(ret) \in {e.next_tick_instant, e.timeout_instant}
                  ELSE Unwrap(ret) = e.next_tick_instant
            /\ (e.next_tick_instant >= e.timeout_instant
                    /\ ~client_selected /\ e.open_lanes_count # 0) => ret # None

\* Still hunting with the deadline no later than the next tick: the wake-up
\* is the deadline, not None.
C25_Witness ==
    /\ puncher.selected_lane_index = None
    /\ puncher.open_lanes_count > 0
    /\ puncher.next_tick_instant >= puncher.timeout_instant
    /\ Puncher_next_tick_instant(puncher) = Some(puncher.timeout_instant)
    /\ \E i \in LaneIndexes(puncher) : LaneKind(puncher, i) = "Blocked"


(***************************************************************************)
(* C26: construction accepts a port range exactly when my_port_start +     *)
(* lane_count <= 65536 and remote_port_start + lane_count <= 65536, so     *)
(* that the last lane may use port 65535, and traps otherwise. For         *)
(* juan-puncher-sm the addresses are taken to be acceptable, so that only  *)
(* the port ranges decide.                                                 *)
(***************************************************************************)
AddressesAccepted ==
    /\ call.my_address.family = call.remote_address.family
    /\ call.my_address.raw # call.remote_address.raw

Built == call.built # "nothing"

C26_PortRangeAccepted ==
    (Built /\ (call.built = "juan-puncher-sm" => AddressesAccepted)) =>
        (~puncher.panicked <=>
            /\ call.my_port_start + call.lane_count <= U16
            /\ call.remote_port_start + call.lane_count <= U16)


(***************************************************************************)
(* C27: construction traps on a remote IP address equal to the local one   *)
(* and on a remote address of another IP family than the local one, so     *)
(* that every constructed engine has a local and a remote address of the   *)
(* same family with unequal values. The local address of an engine of      *)
(* portal-puncher-sm is the address its host bound the sockets to.         *)
(***************************************************************************)
C27_AddressesChecked ==
    (Built /\ ~puncher.panicked) => AddressesAccepted


(***************************************************************************)
(* C28: immediately after construction, with either constructor, the       *)
(* engine owns exactly lane_count lanes, every lane is Connecting with     *)
(* sent false and needs_send true, open_lanes_count is lane_count and      *)
(* selected_lane_index is None; so the first send_to drain emits exactly   *)
(* one Connecting-status packet per lane, in ascending lane order.         *)
(***************************************************************************)
\* The packets the loop `while let Some(..) = send_to(..)` sends, in order.
RECURSIVE DrainSequence(_)
DrainSequence(e) ==
    LET out == send_to(e) IN
    IF out.info = None THEN <<>> ELSE <<Unwrap(out.info)>> \o DrainSequence(out.engine)

C28_FreshEngine ==
    (Built /\ ~puncher.panicked) =>
        /\ DOMAIN puncher.lanes = 0 .. (call.lane_count - 1)
        /\ \A i \in DOMAIN puncher.lanes :
              /\ puncher.lanes[i].state = [kind |-> "Connecting", sent |-> FALSE,
                                            reason |-> NoReason]
              /\ puncher.lanes[i].needs_send
        /\ puncher.open_lanes_count = call.lane_count
        /\ puncher.selected_lane_index = None
        /\ DrainSequence(puncher) =
              [i \in 1 .. call.lane_count |->
                  [from_port |-> call.my_port_start + (i - 1),
                   to_port |-> call.remote_port_start + (i - 1),
                   lane_status |-> "Connecting"]]


(***************************************************************************)
(* C29: codec round trip. For every lane status and every application      *)
(* payload of at most 1391 bytes, parsing what write_to wrote for          *)
(* PacketData::new(status, payload) yields the same status and payload,    *)
(* and the written length is 9 + the payload length; and flipping any      *)
(* single bit of the 8-byte preamble of such a packet makes parse return   *)
(* WrongPreamble.                                                          *)
(***************************************************************************)
C29_CodecRoundTrip ==
    /\ Len(call.application_data) <= 1391 =>
          /\ ~call.panicked
          /\ call.length # None => Unwrap(call.length) = 9 + Len(call.application_data)
          /\ (call.parsed # None /\ call.flipped = None) =>
                Unwrap(call.parsed) =
                    Ok([lane_status |-> call.lane_status,
                        application_data |-> call.application_data])
          /\ (call.parsed # None /\ call.flipped # None) =>
                Unwrap(call.parsed) = Err("WrongPreamble")

\* The longest payload, with the status byte 255, came back from parse.
C29_Witness ==
    /\ call.parsed # None
    /\ call.flipped = None
    /\ call.lane_status = "Blocked"
    /\ Len(call.application_data) = 1391
    /\ Unwrap(call.parsed).tag = "Ok"



(***************************************************************************)
(* C30: connection code round trip. For every IPv4 or IPv6 address, every  *)
(* port_start in 0..=65535 and every non-zero lane_count in 1..=65535,     *)
(* deserialize_from_str(serialize_to_string(code)) returns Ok(code) with   *)
(* all four fields equal to the original.                                  *)
(***************************************************************************)
C30_ConnectionCodeRoundTrip ==
    (call.string # None /\ call.replaced = None /\ call.truncated = None
        /\ call.deserialized # None)
    => Unwrap(call.deserialized) = Ok(call.code)

(***************************************************************************)
(* C31: checksum sensitivity. Replacing any single character of a          *)
(* serialized connection code by a different base-64 character never       *)
(* decodes to Ok: the result is always one of the DeserializeError values, *)
(* and a change confined to the checksum bytes yields BadChecksum.         *)
(***************************************************************************)
DeserializeErrors ==
    { "InvalidBase64", "UnexpectedEnd", "InvalidIpTypeByte", "ZeroLaneCount",
      "OverflowingLaneCount", "BadChecksum", "TooLong" }

\* The bytes the code was serialized to.
SerializedBytes(code) ==
    ConnectionCode_serialize_to_bytes(code, [i \in 1 .. CONNECTION_CODE_MAX_LENGTH_BYTES |-> 0])

\* The string still decodes, and its bytes differ from the serialized ones
\* in the two checksum bytes only.
ConfinedToChecksum(code, string) ==
    LET out == SerializedBytes(code)
        decoded == base64_decode_slice(string, CONNECTION_CODE_MAX_LENGTH_BYTES + 2)
    IN  /\ decoded.tag = "Ok"
        /\ Len(decoded.val) = out.index
        /\ \A i \in 1 .. (out.index - 2) : decoded.val[i] = out.buf[i]

C32_TruncatedIsUnexpectedEnd ==
    (call.truncated # None /\ call.deserialized # None) =>
        Unwrap(call.deserialized) = Err("UnexpectedEnd")

(***************************************************************************)
(* C33: in every reachable state in which selected_lane_index is Some(k),  *)
(* lane k is in state Selected and open_lanes_count is 1: the lane that    *)
(* poll() reports as Connect/Listen is still Selected, whatever packets or *)
(* errors arrive on it after selection.                                    *)
(***************************************************************************)
C33_SelectedLaneStaysSelected ==
    IsSome(puncher.selected_lane_index) =>
        /\ LaneKind(puncher, Unwrap(puncher.selected_lane_index)) = "Selected"
        /\ puncher.open_lanes_count = 1

(***************************************************************************)
(* C34: honest peers never block a lane. In the closed system of a client  *)
(* and a server engine with equal lane counts, without receive or send     *)
(* errors, where every delivered datagram is one the peer's send_to wrote  *)
(* for the paired lane and the network loses, duplicates, delays and       *)
(* reorders, no lane of either engine ever enters Blocked.                 *)
(***************************************************************************)
C34_HonestPeersNeverBlock ==
    \A p \in Roles : \A i \in LaneIndexes(peer[p]) : LaneKind(peer[p], i) # "Blocked"

\* Both engines have ticked as often as they may, the client has selected a
\* lane, and datagrams of every status either peer emits are in the network
\* to be delivered again, late and out of order.
C34_Witness ==
    /\ IsSome(peer["client"].selected_lane_index)
    /\ \A p \in Roles : peer[p].next_tick_instant > MaxPairTicks * TickPeriod
    /\ \A st \in {"Connecting", "Establishing"} : \A p \in Roles :
          \E pkt \in net : AddressedTo(peer[p], pkt) /\ pkt.lane_status = st

(***************************************************************************)
(* C35: the engine's internal traps are unreachable through in-range       *)
(* calls. For any sequence of received_from, send_to, send_failed and tick *)
(* calls with valid local ports, set_selected_lane is never invoked when a *)
(* lane is already selected (no Establishing lane exists once a lane is    *)
(* selected), and block_lane is never invoked on a lane that is Blocked or *)
(* Closed: no further received_from or send_failed with a valid local port *)
(* panics.                                                                 *)
(***************************************************************************)
C35_TrapsUnreachable ==
    ~puncher.panicked =>
        /\ IsSome(puncher.selected_lane_index) =>
              \A i \in LaneIndexes(puncher) : LaneKind(puncher, i) # "Establishing"
        /\ \A i \in LaneIndexes(puncher) :
              /\ \A r \in RecvResults(puncher) : ~AfterReceive(puncher, i, r).panicked
              /\ ~send_failed(puncher, puncher.my_port_start + i).panicked

\* A lane is selected, set_selected_lane closed another lane, and the
\* selected lane has since been blocked: every lane is one on which a
\* further block_lane or set_selected_lane would trap.
C35_Witness ==
    /\ ~puncher.panicked
    /\ IsSome(puncher.selected_lane_index)
    /\ LaneKind(puncher, Unwrap(puncher.selected_lane_index)) = "Blocked"
    /\ \E i \in LaneIndexes(puncher) : LaneKind(puncher, i) = "Closed"

(***************************************************************************)
(* C36: the host loop punch_connection never triggers the engine's         *)
(* out-of-range trap. Every local port it passes to received_from and      *)
(* send_failed lies in [port_start, port_start + lane_count) of the engine *)
(* it built, for every combination of local socket count and remote lane   *)
(* count.                                                                  *)
(***************************************************************************)
C36_HostPortsInRange ==
    IsSome(host.port) =>
        /\ Unwrap(host.port) >= puncher.my_port_start
        /\ Unwrap(host.port) < puncher.my_port_start + puncher.lane_count
        /\ ~puncher.panicked

(***************************************************************************)
(* C37: in every reachable state no Closed lane has needs_send = true, so  *)
(* send_to never reaches LaneState::status() on a Closed lane, where it    *)
(* would trap, and never emits a packet from a Closed lane.                *)
(***************************************************************************)
C37_ClosedLanesNeedNoSend ==
    /\ ~puncher.panicked
    /\ \A i \in LaneIndexes(puncher) :
          LaneKind(puncher, i) = "Closed" => ~puncher.lanes[i].needs_send
    /\ LET out == send_to(puncher) IN
          /\ ~out.engine.panicked
          /\ IsSome(out.info) =>
                LaneKind(puncher, Unwrap(out.info).from_port - puncher.my_port_start) # "Closed"

\* A server with a selected lane and a Closed lane, after a tick that
\* followed the selection: the selected lane needs a send again, the Closed
\* lane does not.
C37_Witness ==
    /\ puncher.is_server
    /\ IsSome(puncher.selected_lane_index)
    /\ puncher.lanes[Unwrap(puncher.selected_lane_index)].needs_send
    /\ puncher.lanes[Unwrap(puncher.selected_lane_index)].state.sent
    /\ \E i \in LaneIndexes(puncher) : LaneKind(puncher, i) = "Closed"

(***************************************************************************)
(* C38: bind_sockets falls back downward. Whenever binding one of the      *)
(* following sockets on the next higher port fails, whether the first port *)
(* was specific or chosen by the OS (port 0), the function goes on to bind *)
(* on the ports below the first socket before it gives up on that attempt; *)
(* only if that fails too is an error returned (specific port) or the      *)
(* whole process retried, with at most three attempts in total (port 0).   *)
(***************************************************************************)
C38_FallsBackDownward ==
    /\ call.attempts <= 3
    /\ (IsSome(call.gave_up) /\ Unwrap(call.gave_up).up_failed) => Unwrap(call.gave_up).went_down

(***************************************************************************)
(* C39: whenever bind_sockets returns Ok, for any set of unavailable ports *)
(* and any mix of upward and downward binding, the returned vector holds   *)
(* exactly lane_count sockets whose ports are consecutive and ascending    *)
(* (ports[i+1] = ports[i] + 1), and it contains no socket left over from   *)
(* an earlier failed attempt: every socket is on a port that was free, and *)
(* the first socket of the last attempt is among them.                     *)
(***************************************************************************)
C39_OkIsConsecutive ==
    (IsSome(call.result) /\ Unwrap(call.result).tag = "Ok") =>
        LET ports == Unwrap(call.result).val IN
        /\ Len(ports) = call.lane_count
        /\ \A i \in 1 .. (Len(ports) - 1) : ports[i + 1] = ports[i] + 1
        /\ \A i \in 1 .. Len(ports) : ports[i] \notin call.unavailable /\ ports[i] >= 1
        /\ call.bind_port # 0 => \E i \in 1 .. Len(ports) : ports[i] = call.bind_port

\* Ok after a retry and a turn downward: an earlier attempt was abandoned
\* and its sockets dropped; in the last one the sockets below the first
\* completed the vector.
C39_Witness ==
    /\ IsSome(call.result) /\ Unwrap(call.result).tag = "Ok"
    /\ call.lane_count > 1
    /\ call.attempts > 1
    /\ ~call.going_up

\* C40: a CompactVec and a Vec that received the same pushes, inserts, pops,
\* removes, swap_removes, truncates, clears and spills have the same length
\* and the same elements in the same order and panic on the same calls; the
\* CompactVec is spilled exactly when an insertion found it holding N elements
\* or a spill was called (from then on it stays spilled), so that spilling an
\* inlined vector of k <= N elements gives a spilled vector of those k
\* elements.
C40_BehavesLikeVec ==
    /\ call.panicked = call.reference_panicked
    /\ CompactVec_len(call.vec) = Len(call.reference)
    /\ CompactVec_as_slice(call.vec) = call.reference
    /\ CompactVec_is_spilled(call.vec) <=> call.must_spill

====
